---- MODULE Spec2Model ----
(***************************************************************************)
(* A model of the AEGIS AI gateway: the per-provider circuit breakers and  *)
(* the health tracker (internal/router), route resolution, the content     *)
(* filter chain, the chat-completion handler, the sliding-window rate      *)
(* limiter and the SSE forwarding loop.                                    *)
(*                                                                         *)
(* Time is an integer clock `now`; one unit stands for an arbitrary fixed  *)
(* duration.  Every specification below drives one component; the state of *)
(* the components it does not drive stays at its initial value.            *)
(***************************************************************************)
EXTENDS Integers, Sequences, FiniteSets, TLC

VARIABLES
    now,                    \* the wall clock read by time.Now() / time.Since()
    failureThreshold,       \* HealthTracker.failureThreshold
    recoveryProbeInterval,  \* HealthTracker.recoveryProbeInterval
    breakers,               \* HealthTracker.breakers: provider -> breaker | NoBreaker
    call,                   \* the last call made on the health tracker / a breaker
    modelsCfg,              \* config.ModelsConfig.Models: alias -> ModelMapping
    registry,               \* router.Registry.adapters: provider -> adapter | NoAdapter
    filterCfg,              \* what each filter's Enabled() answers
    req,                    \* the request the handler is serving, and its locals
    served,                 \* number of requests that have arrived
    limiter,                \* the Limiter, its arguments and the sorted set of its key
    checks,                 \* each caller's position in Limiter.Check
    answers,                \* the LimitResults returned so far, with their times
    stream,                 \* handleStream / streamSSE: position, body, client output
    keystore,               \* CachedKeyStore: the cache, the api_keys rows, the last lookup
    budget,                 \* BudgetTracker and the daily counters of the store
    front,                  \* the request passing the middlewares of the authenticated routes
    scan,                   \* the policy evaluator, the PII client and their last ScanRequest
    ht,                     \* a health tracker shared by concurrent callers
    shared                     \* the adapter registry shared by requests and the reload callback

cbVars == <<now, failureThreshold, recoveryProbeInterval, breakers, call>>
plVars == <<modelsCfg, registry, filterCfg, req, served>>

rlVars == <<limiter, checks, answers>>
mwVars == <<keystore, budget, front>>
ccVars == <<ht, shared>>
auxVars == <<rlVars, stream, mwVars, scan, ccVars>>

vars == <<cbVars, plVars, auxVars>>

(***************************************************************************)
(* Bounds of the model.                                                    *)
(***************************************************************************)
MaxTime == 4          \* the clock runs 0..MaxTime
MaxThreshold == 2     \* failure_threshold is drawn from 1..MaxThreshold
MaxInterval == 2      \* recovery_probe_interval is drawn from 1..MaxInterval
MaxCount == 3         \* cap on the failure counter of a breaker
MaxRequests == 3      \* requests served one after the other by Spec
MaxFallback == 1      \* longest fallback list SpecRoute draws
MaxLimit == 2         \* the limit of a rate-limit key is drawn from 1..MaxLimit
MaxWindow == 2        \* the window of a rate-limit key is drawn from 1..MaxWindow
MaxChecks == 2        \* Limiter.Check calls made in one behaviour
MaxEvents == 4        \* events in a provider's stream body
MaxFront == 3         \* requests that arrive on the authenticated routes
MaxCap == 2           \* a key's daily spend cap is drawn from 0..MaxCap
MaxCost == 1          \* the cost of a completion, in cents, is at most MaxCost
Midnight == 3         \* the clock reading at which the next UTC day begins
MaxMessages == 2      \* messages in the request a filter scans
MaxDetections == 1    \* entities the PII service reports for one message
MaxCalls == 3         \* calls concurrent callers make on the shared health tracker
MaxReloads == 2       \* configuration reloads in one behaviour

Providers == {"openai", "anthropic", "internal_vllm"}

\* The provider whose breaker the callers of SpecCB address.
Probed == {"openai"}

(***************************************************************************)
(* internal/router: CircuitState and CircuitBreaker.                       *)
(***************************************************************************)
StateClosed == "closed"
StateOpen == "open"
StateHalfOpen == "half_open"

\* The zero time.Time of a breaker field that was never stamped.
ZeroTime == -1

\* A duration longer than any the model measures (time.Since of the zero time).
Forever == MaxTime + MaxInterval + 1

\* time.Since(t) evaluated when the clock shows `at`.
Since(t, at) == IF t = ZeroTime THEN Forever ELSE at - t

NoBreaker == [state |-> "none"]

\* The fields successes and lastFailure of CircuitBreaker are written and never
\* read; the model leaves them out.
NewCircuitBreaker(ft, rpi) ==
    [state |-> StateClosed, failures |-> 0, openedAt |-> ZeroTime,
     failureThreshold |-> ft, recoveryProbeInterval |-> rpi]

\* currentState with the probe due only after more than the interval.
currentStateLate(cb, at) ==
    IF cb.state = StateOpen /\ Since(cb.openedAt, at) > cb.recoveryProbeInterval
    THEN [cb EXCEPT !.state = StateHalfOpen]
    ELSE cb

\* currentState: the breaker after the OPEN -> HALF_OPEN transition, if due.
currentState(cb, at) ==
    IF cb.state = StateOpen /\ Since(cb.openedAt, at) >= cb.recoveryProbeInterval
    THEN [cb EXCEPT !.state = StateHalfOpen]
    ELSE cb

\* State(): the breaker after the call and the state it returns.
State(cb, at) ==
    LET c == currentState(cb, at) IN [cb |-> c, ret |-> c.state]

\* Allow that lets traffic through in every state.
AllowAlways(cb, at) == [cb |-> currentState(cb, at), ret |-> TRUE]

\* Allow(): the breaker after the call and the boolean it returns.
Allow(cb, at) ==
    LET c == currentState(cb, at) IN
    [cb |-> c,
     ret |-> CASE c.state = StateClosed -> TRUE
               [] c.state = StateHalfOpen -> TRUE
               [] c.state = StateOpen -> FALSE
               [] OTHER -> FALSE]

\* RecordSuccess that also zeroes the failure counter of a closed breaker.
RecordSuccessResets(cb) ==
    CASE cb.state = StateHalfOpen ->
            [cb EXCEPT !.state = StateClosed, !.failures = 0]
      [] cb.state = StateClosed -> [cb EXCEPT !.failures = 0]
      [] OTHER -> cb

\* RecordSuccess that closes a half-open breaker and keeps its counter.
RecordSuccessKeepsCount(cb) ==
    CASE cb.state = StateHalfOpen -> [cb EXCEPT !.state = StateClosed]
      [] OTHER -> cb

RecordSuccess(cb) ==
    CASE cb.state = StateHalfOpen ->
            [cb EXCEPT !.state = StateClosed, !.failures = 0]
      [] cb.state = StateClosed -> cb
      [] OTHER -> cb

\* RecordFailure that reopens a half-open breaker without stamping openedAt.
RecordFailureNoStamp(cb, at) ==
    LET c == [cb EXCEPT !.failures = @ + 1] IN
    CASE c.state = StateClosed ->
            IF c.failures >= c.failureThreshold
            THEN [c EXCEPT !.state = StateOpen, !.openedAt = at]
            ELSE c
      [] c.state = StateHalfOpen ->
            [c EXCEPT !.state = StateOpen]
      [] OTHER -> c

\* RecordFailure that stamps openedAt again on a breaker that is already open.
RecordFailureRestamps(cb, at) ==
    LET c == [cb EXCEPT !.failures = @ + 1] IN
    CASE c.state = StateClosed ->
            IF c.failures >= c.failureThreshold
            THEN [c EXCEPT !.state = StateOpen, !.openedAt = at]
            ELSE c
      [] c.state = StateHalfOpen ->
            [c EXCEPT !.state = StateOpen, !.openedAt = at]
      [] OTHER -> [c EXCEPT !.openedAt = at]

RecordFailure(cb, at) ==
    LET c == [cb EXCEPT !.failures = @ + 1] IN
    CASE c.state = StateClosed ->
            IF c.failures >= c.failureThreshold
            THEN [c EXCEPT !.state = StateOpen, !.openedAt = at]
            ELSE c
      [] c.state = StateHalfOpen ->
            [c EXCEPT !.state = StateOpen, !.openedAt = at]
      [] OTHER -> c

Reset(cb) ==
    [cb EXCEPT !.state = StateClosed, !.failures = 0]

(***************************************************************************)
(* internal/router: HealthTracker.  `bs` is the breakers map; every        *)
(* operator returns the map after the call (GetBreaker creates lazily).    *)
(***************************************************************************)
NewHealthTracker == [p \in Providers |-> NoBreaker]

GetBreaker(bs, p, ft, rpi) ==
    IF bs[p] # NoBreaker THEN bs
    ELSE [bs EXCEPT ![p] = NewCircuitBreaker(ft, rpi)]

IsAvailable(bs, p, ft, rpi, at) ==
    LET b == GetBreaker(bs, p, ft, rpi)
        r == Allow(b[p], at)
    IN [breakers |-> [b EXCEPT ![p] = r.cb], ret |-> r.ret]

HTRecordSuccess(bs, p, ft, rpi) ==
    LET b == GetBreaker(bs, p, ft, rpi) IN [b EXCEPT ![p] = RecordSuccess(b[p])]

HTRecordFailure(bs, p, ft, rpi, at) ==
    LET b == GetBreaker(bs, p, ft, rpi) IN [b EXCEPT ![p] = RecordFailure(b[p], at)]


(***************************************************************************)
(* internal/types: the classification lattice.                             *)
(***************************************************************************)
ClassPublic == "PUBLIC"
ClassInternal == "INTERNAL"
ClassConfidential == "CONFIDENTIAL"
ClassRestricted == "RESTRICTED"

KnownClasses == {ClassPublic, ClassInternal, ClassConfidential, ClassRestricted}

\* Classification.Level()
Level(c) ==
    CASE c = ClassPublic -> 0
      [] c = ClassInternal -> 1
      [] c = ClassConfidential -> 2
      [] c = ClassRestricted -> 3
      [] OTHER -> -1

\* Classification.Allows(data)
Allows(c, data) == Level(c) >= Level(data)

\* The parse that accepts every word as a tier.
ParseClassificationAny(s) == [class |-> s, ok |-> TRUE]

\* ParseClassification(s): the (Classification, ok) pair.
ParseClassification(s) ==
    IF s \in KnownClasses THEN [class |-> s, ok |-> TRUE]
    ELSE [class |-> "", ok |-> FALSE]

(***************************************************************************)
(* internal/router: Registry and route resolution.                         *)
(***************************************************************************)
NoAdapter == "none"

\* The adapter kinds BuildFromConfig creates; Name() of each is its kind.
AdapterKinds == {"openai", "anthropic"}

AdapterName(a) == a

NewRegistry == [p \in Providers |-> NoAdapter]

\* Registry.Get(name): the (adapter, ok) pair.
RegistryGet(r, name) == [adapter |-> r[name], ok |-> r[name] # NoAdapter]

NoModels == [a \in {} |-> 0]

\* The ungated resolution: every route is eligible for every request.
routeEligibleUngated(route, classification) == TRUE

\* The eligibility that treats a route with no ceiling as a route with an
\* unknown one.
routeEligibleCeilingRequired(route, classification) ==
    LET ceiling == ParseClassification(route.ceiling) IN
    IF ~ceiling.ok THEN FALSE
    ELSE LET reqClass == ParseClassification(classification) IN
         IF ~reqClass.ok THEN TRUE
         ELSE Allows(ceiling.class, reqClass.class)

\* routeEligible(route, classification)
routeEligible(route, classification) ==
    IF route.ceiling = "" THEN TRUE
    ELSE LET ceiling == ParseClassification(route.ceiling) IN
         IF ~ceiling.ok THEN FALSE
         ELSE LET reqClass == ParseClassification(classification) IN
              IF ~reqClass.ok THEN TRUE
              ELSE Allows(ceiling.class, reqClass.class)

\* The candidate walk of ResolveRoute from candidate i on: the first route that
\* is eligible, registered and whose breaker allows traffic.  `bs` is the
\* breakers map, which IsAvailable may change; `asked` lists the
\* availability queries made so far and their answers.
RECURSIVE ResolveFrom(_, _, _, _, _, _, _, _, _)
ResolveFrom(cands, i, reg, bs, ft, rpi, at, classification, asked) ==
    IF i > Len(cands)
    THEN [err |-> TRUE, adapter |-> NoAdapter, provider |-> "", model |-> "",
          index |-> 0, breakers |-> bs, asked |-> asked]
    ELSE LET c == cands[i]
             got == RegistryGet(reg, c.provider)
         IN IF routeEligible(c, classification) /\ got.ok
            THEN LET r == IsAvailable(bs, c.provider, ft, rpi, at)
                     q == Append(asked, [p |-> c.provider, ret |-> r.ret])
                 IN IF r.ret
                    THEN [err |-> FALSE, adapter |-> got.adapter,
                          provider |-> c.provider, model |-> c.model,
                          index |-> i, breakers |-> r.breakers, asked |-> q]
                    ELSE ResolveFrom(cands, i + 1, reg, r.breakers, ft, rpi, at,
                                     classification, q)
            ELSE ResolveFrom(cands, i + 1, reg, bs, ft, rpi, at, classification, asked)

\* The candidates with the fallback routes ahead of the primary.
CandidatesFallbackFirst(mapping) == mapping.fallback \o <<mapping.primary>>

\* [primary] ++ fallback
Candidates(mapping) == <<mapping.primary>> \o mapping.fallback

\* ResolveRoute(modelsCfg, registry, healthTracker, modelName, classification)
ResolveRoute(models, reg, bs, ft, rpi, at, modelName, classification) ==
    IF modelName \notin DOMAIN models
    THEN [err |-> TRUE, adapter |-> NoAdapter, provider |-> "", model |-> "",
          index |-> 0, breakers |-> bs, asked |-> <<>>]
    ELSE ResolveFrom(Candidates(models[modelName]), 1, reg, bs, ft, rpi, at,
                     classification, <<>>)

(***************************************************************************)
(* internal/filter: Chain.  The chain of cmd/gateway holds four filters.   *)
(***************************************************************************)
ActionPass == "pass"
ActionFlag == "flag"
ActionRedact == "redact"
ActionBlock == "block"

Actions == {ActionPass, ActionFlag, ActionRedact, ActionBlock}

\* filter.NewChain(secretsFilter, injectionScanner, piiClient, policyEvaluator)
Chain == <<"secrets", "injection", "pii", "policy">>

FilterSet == {Chain[i] : i \in 1..Len(Chain)}

NewResult(action, name) == [Action |-> action, FilterName |-> name]

\* A loop body that records a Block and goes on to the next filter.
RunStepOn(results, i, enabled, action) ==
    IF ~enabled
    THEN [results |-> results, returns |-> FALSE]
    ELSE [results |-> Append(results, NewResult(action, Chain[i])),
          returns |-> FALSE]

\* A loop body that returns at the first result that is not Pass.
RunStepFlagReturns(results, i, enabled, action) ==
    IF ~enabled
    THEN [results |-> results, returns |-> FALSE]
    ELSE [results |-> Append(results, NewResult(action, Chain[i])),
          returns |-> action # ActionPass]

\* One iteration of the loop of Chain.Run over filter i: the results so far,
\* whether Run returns here, and the blocking result it returns.
RunStep(results, i, enabled, action) ==
    IF ~enabled
    THEN [results |-> results, returns |-> FALSE]
    ELSE LET r == NewResult(action, Chain[i]) IN
         [results |-> Append(results, r), returns |-> r.Action = ActionBlock]

(***************************************************************************)
(* HealthTracker under concurrent callers.  The tracker holds the map from *)
(* provider name to a pointer into `heap`, the breakers ever created, and  *)
(* `mu`, the name of the caller holding the write lock ("" when free).     *)
(* `ref` is the breaker every outcome so far was applied to, in order.     *)
(***************************************************************************)
Threads == {"w1", "w2"}

TrackerOps == {"GetBreaker", "IsAvailable", "RecordSuccess", "RecordFailure"}

IdleThread == [pc |-> "idle", op |-> "", cb |-> 0, recheck |-> FALSE,
               ret |-> TRUE]

SharedTracker(ft, rpi) ==
    [breakers |-> [p \in Probed |-> <<>>], heap |-> <<>>, mu |-> "",
     th |-> [t \in Threads |-> IdleThread], calls |-> 0,
     ref |-> NewCircuitBreaker(ft, rpi), failed |-> FALSE, rechecks |-> 0]

\* GetBreaker, lines 116-121: the read of the map under the read lock.
GetBreakerRead(h, p) == [cb |-> h.breakers[p], ok |-> h.breakers[p] # <<>>]

\* The locked section that creates a breaker without looking again.
GetBreakerCreateBlind(h, p, ft, rpi) ==
    LET id == Len(h.heap) + 1 IN
    [ht |-> [h EXCEPT !.heap = Append(@, NewCircuitBreaker(ft, rpi)),
                      !.breakers[p] = <<id>>],
     cb |-> id, found |-> FALSE]

\* GetBreaker, lines 123-131: under the write lock the map is read again
\* and a breaker is created and stored only if there is still none.
GetBreakerCreate(h, p, ft, rpi) ==
    IF h.breakers[p] # <<>>
    THEN [ht |-> h, cb |-> h.breakers[p][1], found |-> TRUE]
    ELSE LET id == Len(h.heap) + 1 IN
         [ht |-> [h EXCEPT !.heap = Append(@, NewCircuitBreaker(ft, rpi)),
                           !.breakers[p] = <<id>>],
          cb |-> id, found |-> FALSE]

\* The operation `op` on breaker cb at time `at`: the breaker after it and
\* what the caller is returned.
ApplyOp(op, cb, at) ==
    CASE op = "IsAvailable" -> Allow(cb, at)
      [] op = "RecordSuccess" -> [cb |-> RecordSuccess(cb), ret |-> TRUE]
      [] op = "RecordFailure" -> [cb |-> RecordFailure(cb, at), ret |-> TRUE]
      [] OTHER -> [cb |-> cb, ret |-> TRUE]

\* A caller enters GetBreaker, directly or through one of the three calls.
HTCall(t, op) ==
    /\ ht.th[t].pc = "idle"
    /\ ht.calls < MaxCalls
    /\ ht' = [ht EXCEPT !.calls = @ + 1,
                        !.th[t] = [IdleThread EXCEPT !.pc = "read", !.op = op]]
    /\ UNCHANGED <<cbVars, plVars, rlVars, stream, mwVars, scan, shared>>

\* RLock, the read of the map, RUnlock.
HTRead(t) ==
    /\ ht.th[t].pc = "read"
    /\ ht.mu = ""
    /\ LET r == GetBreakerRead(ht, "openai") IN
       ht' = IF r.ok
             THEN [ht EXCEPT !.th[t].pc = "apply", !.th[t].cb = r.cb[1]]
             ELSE [ht EXCEPT !.th[t].pc = "lock"]
    /\ UNCHANGED <<cbVars, plVars, rlVars, stream, mwVars, scan, shared>>

\* ht.mu.Lock()
HTLock(t) ==
    /\ ht.th[t].pc = "lock"
    /\ ht.mu = ""
    /\ ht' = [ht EXCEPT !.mu = t, !.th[t].pc = "locked"]
    /\ UNCHANGED <<cbVars, plVars, rlVars, stream, mwVars, scan, shared>>

\* The section under the write lock, and the deferred Unlock.
HTCreate(t) ==
    /\ ht.th[t].pc = "locked"
    /\ LET r == GetBreakerCreate(ht, "openai", failureThreshold,
                                 recoveryProbeInterval)
       IN ht' = [r.ht EXCEPT !.mu = "", !.th[t].pc = "apply",
                             !.th[t].cb = r.cb, !.th[t].recheck = r.found,
                             !.rechecks = IF r.found THEN 1 ELSE @]
    /\ UNCHANGED <<cbVars, plVars, rlVars, stream, mwVars, scan, shared>>

\* The caller acts on the breaker GetBreaker returned, under that
\* breaker's own mutex.
HTApply(t) ==
    /\ ht.th[t].pc = "apply"
    /\ LET me == ht.th[t]
           r == ApplyOp(me.op, ht.heap[me.cb], now)
       IN ht' = [ht EXCEPT !.heap[me.cb] = r.cb,
                           !.ref = ApplyOp(me.op, @, now).cb,
                           !.failed = @ \/ me.op = "RecordFailure",
                           !.th[t].pc = "idle", !.th[t].ret = r.ret]
    /\ UNCHANGED <<cbVars, plVars, rlVars, stream, mwVars, scan, shared>>

(***************************************************************************)
(* The Registry object main.go shares between the requests, which call     *)
(* Registry.Get, and the OnReload callback, which assigns a newly built    *)
(* Registry over it.  `mu` is the RWMutex inside the object: whether a     *)
(* writer holds it and how many readers do.  `adapters` is the map the     *)
(* object points to, named by the number of the build that made it.        *)
(***************************************************************************)
Getters == {"g1", "g2"}

ZeroMutex == [w |-> FALSE, r |-> 0]

IdleGetter == [pc |-> "idle", seen |-> 0]

SharedRegistry ==
    [mu |-> ZeroMutex, adapters |-> 0,
     get |-> [g \in Getters |-> IdleGetter],
     rl |-> [pc |-> "idle", built |-> 0, left |-> {}],
     reloads |-> 0, fatal |-> FALSE]

\* Registry.Get: r.mu.RLock()
RegRLock(g) ==
    /\ ~shared.fatal
    /\ shared.get[g].pc = "idle"
    /\ ~shared.mu.w
    /\ shared' = [shared EXCEPT !.mu.r = @ + 1, !.get[g].pc = "rlocked"]
    /\ UNCHANGED <<cbVars, plVars, rlVars, stream, mwVars, scan, ht>>

\* Registry.Get: a, ok := r.adapters[name]
RegRead(g) ==
    /\ ~shared.fatal
    /\ shared.get[g].pc = "rlocked"
    /\ shared' = [shared EXCEPT !.get[g] = [pc |-> "read", seen |-> shared.adapters]]
    /\ UNCHANGED <<cbVars, plVars, rlVars, stream, mwVars, scan, ht>>

\* Registry.Get: the deferred r.mu.RUnlock().  On a mutex no reader holds
\* the runtime stops the process ("sync: RUnlock of unlocked RWMutex").
RegRUnlock(g) ==
    /\ ~shared.fatal
    /\ shared.get[g].pc = "read"
    /\ shared' = IF shared.mu.r = 0
              THEN [shared EXCEPT !.fatal = TRUE]
              ELSE [shared EXCEPT !.mu.r = @ - 1, !.get[g].pc = "idle"]
    /\ UNCHANGED <<cbVars, plVars, rlVars, stream, mwVars, scan, ht>>

\* The callback: newRegistry := router.BuildFromConfig(loader.Providers())
ReloadBuild ==
    /\ ~shared.fatal
    /\ shared.rl.pc = "idle"
    /\ shared.reloads < MaxReloads
    /\ shared' = [shared EXCEPT !.reloads = @ + 1,
                          !.rl = [pc |-> "assign", built |-> shared.reloads + 1,
                                  left |-> {"mu", "adapters"}]]
    /\ UNCHANGED <<cbVars, plVars, rlVars, stream, mwVars, scan, ht>>

\* The callback: *providerRegistry = *newRegistry, a copy of the struct
\* field by field, in an order the compiler chooses, with no lock taken.
ReloadAssign(field) ==
    /\ ~shared.fatal
    /\ shared.rl.pc = "assign"
    /\ field \in shared.rl.left
    /\ LET copied == IF field = "mu"
                     THEN [shared EXCEPT !.mu = ZeroMutex]
                     ELSE [shared EXCEPT !.adapters = shared.rl.built]
           left == shared.rl.left \ {field}
       IN shared' = [copied EXCEPT !.rl.left = left,
                                !.rl.pc = IF left = {} THEN "idle" ELSE "assign"]
    /\ UNCHANGED <<cbVars, plVars, rlVars, stream, mwVars, scan, ht>>

\* Nothing runs on the shared tracker and registry.
ConcIdle ==
    /\ ht = SharedTracker(1, 1)
    /\ shared = SharedRegistry

(***************************************************************************)
(* internal/filter/policy and internal/filter/pii: ScanRequest.            *)
(***************************************************************************)
\* What prepared.Eval returns: an error, the deadline of the evaluation
\* timeout passing (an error too), an empty result set, a result with no
\* expression, a value that is not an array of two, or [allow, reason] with
\* allow true, false or not a boolean.
EvalOutcome(kind, allow) == [kind |-> kind, allow |-> allow]

EvalOutcomes ==
    {EvalOutcome(k, "") : k \in {"error", "timeout", "no_results",
                                  "no_expressions", "not_array", "short_array"}}
    \cup {EvalOutcome("value", a) : a \in {"true", "false", "undefined"}}

\* The evaluation that allows when no rule set is loaded.
EvaluateUnloadedAllows(prepared, o) ==
    IF ~prepared
    THEN [allowed |-> TRUE, reason |-> "no policies loaded", err |-> FALSE]
    ELSE [allowed |-> o.kind = "value" /\ o.allow = "true", reason |-> "",
          err |-> o.kind \in {"error", "timeout"}]

\* Evaluator.Evaluate: `prepared` is whether a rule set is loaded.
Evaluate(prepared, o) ==
    IF ~prepared
    THEN [allowed |-> FALSE, reason |-> "no policies loaded", err |-> FALSE]
    ELSE IF o.kind \in {"error", "timeout"}
    THEN [allowed |-> FALSE, reason |-> "policy evaluation error", err |-> TRUE]
    ELSE IF o.kind \in {"no_results", "no_expressions"}
    THEN [allowed |-> FALSE, reason |-> "no policy result", err |-> FALSE]
    ELSE IF o.kind \in {"not_array", "short_array"}
    THEN [allowed |-> FALSE, reason |-> "unexpected policy result format",
          err |-> FALSE]
    ELSE [allowed |-> o.allow = "true", reason |-> "", err |-> FALSE]

\* Evaluator.ScanRequest
PolicyScanRequest(prepared, o) ==
    LET e == Evaluate(prepared, o) IN
    IF e.err THEN NewResult(ActionBlock, "policy")
    ELSE IF ~e.allowed THEN NewResult(ActionBlock, "policy")
    ELSE NewResult(ActionPass, "policy")

\* What ScanPII returns for one message: an error, or a response.
ScanPIIError == [err |-> TRUE, Detected |-> FALSE, Detections |-> 0]

ScanPIIResponses ==
    {ScanPIIError} \cup
    {[err |-> FALSE, Detected |-> d, Detections |-> n] :
        d \in BOOLEAN, n \in 0..MaxDetections}

\* The sequences of responses, one per message of the request.
ScanPIISequences == UNION {[1..n -> ScanPIIResponses] : n \in 1..MaxMessages}

\* The mapping that flags where it should block.
classificationActionFlags(classification, detections) ==
    IF detections = 0 THEN ActionPass ELSE ActionFlag

\* classificationAction
classificationAction(classification, detections) ==
    IF detections = 0 THEN ActionPass
    ELSE IF classification \in {"RESTRICTED", "CONFIDENTIAL"} THEN ActionBlock
    ELSE IF classification = "INTERNAL" THEN ActionFlag
    ELSE ActionFlag

\* The rule that blocks whatever fail_open says.
FailRuleClosed(failOpen) == NewResult(ActionBlock, "pii")

\* The rule applied when the service cannot be asked.
FailRule(failOpen) ==
    IF failOpen THEN NewResult(ActionPass, "pii") ELSE NewResult(ActionBlock, "pii")

\* The loop of Client.ScanRequest from message i on.
RECURSIVE ScanMessages(_, _, _, _)
ScanMessages(resps, i, failOpen, classification) ==
    IF i > Len(resps) THEN NewResult(ActionPass, "pii")
    ELSE IF resps[i].err THEN FailRule(failOpen)
    ELSE LET action == classificationAction(classification, resps[i].Detections)
         IN IF resps[i].Detected /\ action = ActionBlock
            THEN NewResult(ActionBlock, "pii")
            ELSE IF resps[i].Detected /\ action = ActionFlag
            THEN NewResult(ActionFlag, "pii")
            ELSE ScanMessages(resps, i + 1, failOpen, classification)

\* Client.ScanRequest: `grpcClient` is whether the client is connected.
PIIScanRequest(grpcClient, failOpen, classification, resps) ==
    IF ~grpcClient THEN FailRule(failOpen)
    ELSE ScanMessages(resps, 1, failOpen, classification)

\* NewEvaluator and NewClient, and no request scanned yet.
NoScan ==
    [prepared |-> FALSE, grpcClient |-> FALSE, failOpen |-> FALSE,
     filter |-> "", outcome |-> EvalOutcome("", ""), classification |-> "",
     resps |-> <<>>, result |-> NewResult("", "")]

\* The chain takes the filter's result; the filters await the next request.
ScanReturn ==
    /\ scan.filter # ""
    /\ scan' = [NoScan EXCEPT !.prepared = scan.prepared,
                              !.grpcClient = scan.grpcClient,
                              !.failOpen = scan.failOpen]
    /\ UNCHANGED <<cbVars, plVars, rlVars, stream, mwVars, ccVars>>

\* Evaluator.Load: `found` is whether the bundle path holds rego files,
\* `compiles` whether they prepare.
Load(found, compiles) ==
    /\ scan' = [scan EXCEPT !.prepared = @ \/ (found /\ compiles)]
    /\ scan' # scan
    /\ UNCHANGED <<cbVars, plVars, rlVars, stream, mwVars, ccVars>>

\* Client.Connect: `ok` is whether grpc.NewClient returns a connection.
Connect(ok) ==
    /\ ok
    /\ ~scan.grpcClient
    /\ scan' = [scan EXCEPT !.grpcClient = TRUE]
    /\ UNCHANGED <<cbVars, plVars, rlVars, stream, mwVars, ccVars>>

\* The chain runs the policy filter on a request.
ScanPolicy(o) ==
    /\ scan.filter = ""
    /\ scan' = [scan EXCEPT !.filter = "policy", !.outcome = o,
                            !.classification = "", !.resps = <<>>,
                            !.result = PolicyScanRequest(scan.prepared, o)]
    /\ UNCHANGED <<cbVars, plVars, rlVars, stream, mwVars, ccVars>>

\* The chain runs the PII filter on a request of tier `classification`
\* whose messages the service answers with `resps`.
ScanPII(classification, resps) ==
    /\ scan.filter = ""
    /\ scan' = [scan EXCEPT !.filter = "pii", !.outcome = EvalOutcome("", ""),
                            !.classification = classification,
                            !.resps = resps,
                            !.result = PIIScanRequest(scan.grpcClient,
                                           scan.failOpen, classification, resps)]
    /\ UNCHANGED <<cbVars, plVars, rlVars, stream, mwVars, ccVars>>

(***************************************************************************)
(* internal/httputil: the error responses.                                 *)
(***************************************************************************)
WriteError(statusCode, errType, code) ==
    [status |-> statusCode, type |-> errType, code |-> code]

WriteAuthError == WriteError(401, "authentication_error", "invalid_api_key")
WriteBadRequestError == WriteError(400, "invalid_request_error", "invalid_request")
WriteInternalError == WriteError(500, "server_error", "internal_error")
\* The unavailable answer written as an internal error.
WriteUnavailableAsInternal == WriteError(500, "server_error", "internal_error")

WriteServiceUnavailableError == WriteError(503, "server_error", "service_unavailable")
WriteContentBlockedError == WriteError(451, "content_filter_error", "content_blocked")

NoResponse == [status |-> 0, type |-> "", code |-> ""]
OKResponse == [status |-> 200, type |-> "", code |-> ""]

(***************************************************************************)
(* internal/gateway: Handler.ChatCompletions, one request at a time.       *)
(* req.pc is the handler's position; the other fields are the request as   *)
(* parsed and the handler's locals.  req.asked, req.routeIndex and         *)
(* req.sentTo record the availability queries of route resolution, the     *)
(* position of the route it chose and the SendRequest calls.               *)
(***************************************************************************)
\* Metrics.RecordFilterAction: one more count of `action` by `filterName`.
RecordFilterAction(metrics, filterName, action) ==
    Append(metrics, [filter |-> filterName, action |-> action])

\* The handler's loop over the results of a request that was not blocked:
\* it records the flagged ones.
RECURSIVE RecordFlagged(_, _)
RecordFlagged(metrics, results) ==
    IF results = <<>> THEN metrics
    ELSE RecordFlagged(IF Head(results).Action = ActionFlag
                       THEN RecordFilterAction(metrics, Head(results).FilterName,
                                               "flag")
                       ELSE metrics,
                       Tail(results))

\* The identity and classification members a client may put in the JSON
\* body: AegisRequest gives each of them a json tag, so json.Unmarshal
\* copies them into the request.
BlankIdentity ==
    [request_id |-> "", organization_id |-> "", team_id |-> "", user_id |-> "",
     api_key_id |-> "", classification |-> ""]

ForgedIdentity ==
    [request_id |-> "forged", organization_id |-> "other-org",
     team_id |-> "other-team", user_id |-> "root", api_key_id |-> "other-key",
     classification |-> ClassPublic]

BodyIdentities ==
    {BlankIdentity, ForgedIdentity,
     [BlankIdentity EXCEPT !.classification = ClassRestricted]}

\* auth.AuthInfo of the principal, as the auth middleware put it in the
\* request's context.
Principal(maxClassification, allowedModels) ==
    [OrganizationID |-> "org-1", TeamID |-> "t1", UserID |-> "u1",
     KeyID |-> "key-1", MaxClassification |-> maxClassification,
     AllowedModels |-> allowedModels]

NoPrincipal ==
    [OrganizationID |-> "", TeamID |-> "", UserID |-> "", KeyID |-> "",
     MaxClassification |-> "", AllowedModels |-> <<>>]

\* json.Unmarshal(body, &aegisReq): the identity and content fields of the
\* AegisRequest the body decodes to.
UnmarshalRequest(body, model, streamed) ==
    [RequestID |-> body.request_id, OrganizationID |-> body.organization_id,
     TeamID |-> body.team_id, UserID |-> body.user_id,
     APIKeyID |-> body.api_key_id, Classification |-> body.classification,
     Model |-> model, Stream |-> streamed]

NoAegisRequest == UnmarshalRequest(BlankIdentity, "", FALSE)

\* The enrichment that fills in only what the body left empty.
EnrichBlanks(r, reqID, authInfo) ==
    LET fill(v, w) == IF v = "" THEN w ELSE v IN
    [r EXCEPT !.RequestID = fill(@, reqID),
              !.OrganizationID = fill(@, authInfo.OrganizationID),
              !.TeamID = fill(@, authInfo.TeamID),
              !.UserID = fill(@, authInfo.UserID),
              !.APIKeyID = fill(@, authInfo.KeyID),
              !.Classification = fill(@, authInfo.MaxClassification)]

\* Lines 66-72: enrich with auth context.
Enrich(r, reqID, authInfo) ==
    [r EXCEPT !.RequestID = reqID,
              !.OrganizationID = authInfo.OrganizationID,
              !.TeamID = authInfo.TeamID,
              !.UserID = authInfo.UserID,
              !.APIKeyID = authInfo.KeyID,
              !.Classification = authInfo.MaxClassification]

\* The id requestIDMiddleware gave the request.
HandlerRequestID == "req-1"

IdleRequest ==
    [pc |-> "idle", model |-> "", classification |-> "", stream |-> FALSE,
     fidx |-> 0, results |-> <<>>, metrics |-> <<>>, adapter |-> NoAdapter, provider |-> "",
     providerModel |-> "", routeIndex |-> 0, asked |-> <<>>, sentTo |-> <<>>,
     response |-> NoResponse, principal |-> NoPrincipal,
     body |-> BlankIdentity, canon |-> NoAegisRequest]

\* The model names clients ask for: two configured aliases, an unknown one.
RequestModels == {"test-model", "gpt-4o", "nonexistent"}

\* The tiers a principal may carry.
RequestClasses == {ClassInternal, ClassRestricted}

\* What arrives: the outcome of authentication and of parsing the body.
\* `classification` is the principal's tier, `allowed` its allowed-models
\* list, `body` the identity members of the JSON body.
Arrivals ==
    {[kind |-> k, model |-> "", classification |-> "", stream |-> FALSE,
      allowed |-> <<>>, body |-> BlankIdentity] :
        k \in {"unauthenticated", "bad_json", "no_model", "no_messages"}}
    \cup
    {[kind |-> "valid", model |-> m, classification |-> c, stream |-> st,
      allowed |-> <<>>, body |-> BlankIdentity] :
        m \in RequestModels, c \in RequestClasses, st \in BOOLEAN}

\* The allowed-models lists a principal may carry: none, one alias.
AllowedLists == {<<>>, <<"gpt-4o">>}

\* Valid requests of principals with every allowed-models list, with every
\* choice of identity members in the body.
EnrichArrivals ==
    {[kind |-> "valid", model |-> m, classification |-> c, stream |-> st,
      allowed |-> al, body |-> b] :
        m \in RequestModels, c \in RequestClasses, st \in BOOLEAN,
        al \in AllowedLists, b \in BodyIdentities}

\* Lines 60-78: the valid request after json.Unmarshal and enrichment; the
\* filters and the router are given the enriched request.
Parsed(a) ==
    LET authInfo == Principal(a.classification, a.allowed)
        aegisReq == Enrich(UnmarshalRequest(a.body, a.model, a.stream),
                           HandlerRequestID, authInfo)
    IN [IdleRequest EXCEPT !.pc = "filter", !.model = aegisReq.Model,
                           !.classification = aegisReq.Classification,
                           !.stream = aegisReq.Stream, !.fidx = 1,
                           !.principal = authInfo, !.body = a.body,
                           !.canon = aegisReq]

\* Lines 42-87: authenticate, parse, enrich, validate.
Arrive(a) ==
    /\ req.pc \in {"idle", "done"}
    /\ served < MaxRequests
    /\ served' = served + 1
    /\ req' = CASE a.kind = "unauthenticated" ->
                    [IdleRequest EXCEPT !.pc = "done", !.response = WriteAuthError]
                [] a.kind \in {"bad_json", "no_model", "no_messages"} ->
                    [IdleRequest EXCEPT !.pc = "done",
                                        !.response = WriteBadRequestError]
                [] OTHER -> Parsed(a)
    /\ UNCHANGED <<auxVars, cbVars, modelsCfg, registry, filterCfg>>

\* One iteration of the loop of Chain.Run, and what the handler does when Run
\* returns (lines 89-112).  `action` is what ScanRequest answers.
FilterStep(action) ==
    /\ req.pc = "filter"
    /\ IF req.fidx > Len(Chain)
       THEN \* Run returns (results, nil): the handler goes on to routing
            /\ action = ActionPass
            /\ req' = [req EXCEPT !.pc = "route", !.results = <<>>,
                                  !.metrics = RecordFlagged(@, req.results)]
       ELSE LET enabled == filterCfg[Chain[req.fidx]]
                s == RunStep(req.results, req.fidx, enabled, action)
            IN /\ ~enabled => action = ActionPass
               /\ IF s.returns
                  THEN \* Run returns (results, &r): the handler answers 451
                       LET blocked == s.results[Len(s.results)] IN
                       req' = [req EXCEPT !.results = s.results, !.pc = "done",
                                          !.metrics = RecordFilterAction(@,
                                              blocked.FilterName, blocked.Action),
                                          !.response = WriteContentBlockedError]
                  ELSE req' = [req EXCEPT !.results = s.results, !.fidx = @ + 1]
    /\ UNCHANGED <<auxVars, cbVars, modelsCfg, registry, filterCfg, served>>

\* Lines 114-138: resolve the route, rewrite the model, transform the
\* request.  `xformErr` is whether adapter.TransformRequest fails.
Route(xformErr) ==
    /\ req.pc = "route"
    /\ LET r == ResolveRoute(modelsCfg, registry, breakers, failureThreshold,
                             recoveryProbeInterval, now, req.model,
                             req.classification)
       IN /\ breakers' = r.breakers
          /\ IF r.err
             THEN /\ xformErr = FALSE
                  /\ req' = [req EXCEPT !.pc = "done", !.asked = r.asked,
                                        !.response = WriteServiceUnavailableError]
             ELSE LET q == [req EXCEPT !.asked = r.asked, !.adapter = r.adapter,
                                       !.provider = r.provider,
                                       !.providerModel = r.model,
                                       !.routeIndex = r.index]
                  IN IF xformErr
                     THEN req' = [q EXCEPT !.pc = "done",
                                           !.response = WriteInternalError]
                     ELSE req' = [q EXCEPT !.pc = IF req.stream THEN "stream"
                                                  ELSE "send"]
    /\ UNCHANGED <<auxVars, now, call, failureThreshold, recoveryProbeInterval,
                   modelsCfg, registry, filterCfg, served>>

\* Lines 140-148: adapter.SendRequest on the non-stream path.  `ok` is whether
\* the call returns a response; `status200` whether that response is a 200.
Send(ok, status200) ==
    /\ req.pc = "send"
    /\ LET q == [req EXCEPT !.sentTo = Append(@, req.provider)] IN
       IF ~ok
       THEN /\ status200 = FALSE
            /\ breakers' = HTRecordFailure(breakers, AdapterName(req.adapter),
                                           failureThreshold,
                                           recoveryProbeInterval, now)
            /\ req' = [q EXCEPT !.pc = "done",
                                !.response = WriteServiceUnavailableError]
       ELSE /\ UNCHANGED breakers
            /\ req' = [q EXCEPT !.pc = IF status200 THEN "translate"
                                       ELSE "translate_fail"]
    /\ UNCHANGED <<auxVars, now, call, failureThreshold, recoveryProbeInterval,
                   modelsCfg, registry, filterCfg, served>>

\* The handler that records the success as soon as the provider answers,
\* before the response is translated.
TranslateRecordsFirst(ok) ==
    /\ req.pc \in {"translate", "translate_fail"}
    /\ breakers' = HTRecordSuccess(breakers, AdapterName(req.adapter),
                                   failureThreshold, recoveryProbeInterval)
    /\ IF req.pc = "translate_fail" \/ ~ok
       THEN req' = [req EXCEPT !.pc = "done", !.response = WriteInternalError]
       ELSE req' = [req EXCEPT !.pc = "done", !.response = OKResponse]
    /\ UNCHANGED <<auxVars, now, call, failureThreshold, recoveryProbeInterval,
                   modelsCfg, registry, filterCfg, served>>

\* Lines 150-200: adapter.TransformResponse, then the success is recorded and
\* the response written.  `ok` is whether the body is read and parsed.
Translate(ok) ==
    /\ req.pc \in {"translate", "translate_fail"}
    /\ IF req.pc = "translate_fail" \/ ~ok
       THEN /\ UNCHANGED breakers
            /\ req' = [req EXCEPT !.pc = "done", !.response = WriteInternalError]
       ELSE /\ breakers' = HTRecordSuccess(breakers, AdapterName(req.adapter),
                                           failureThreshold,
                                           recoveryProbeInterval)
            /\ req' = [req EXCEPT !.pc = "done", !.response = OKResponse]
    /\ UNCHANGED <<auxVars, now, call, failureThreshold, recoveryProbeInterval,
                   modelsCfg, registry, filterCfg, served>>

\* handleStream (lines 203-232): SendRequest, then either an error response
\* or the SSE forwarding of streamSSE, which answers 200.
HandleStream(ok, status200) ==
    /\ req.pc = "stream"
    /\ LET q == [req EXCEPT !.sentTo = Append(@, req.provider), !.pc = "done"] IN
       IF ~ok
       THEN /\ status200 = FALSE
            /\ req' = [q EXCEPT !.response = WriteServiceUnavailableError]
       ELSE IF ~status200
       THEN req' = [q EXCEPT !.response = WriteInternalError]
       ELSE req' = [q EXCEPT !.response = OKResponse]
    /\ UNCHANGED <<auxVars, cbVars, modelsCfg, registry, filterCfg, served>>

(***************************************************************************)
(* internal/ratelimit: Limiter.Check over the sorted set of one key.       *)
(* A member of the set is the pair <<now, random>> of the string           *)
(* now .. ':' .. random, and its score is the pair's first component.      *)
(***************************************************************************)
\* The goroutines that call Limiter.Check concurrently.
Callers == {"a", "b"}

\* Two of the values math.random(1000000) may return.
RandomDraws == {1, 2}

\* The sorted set as the store holds it at time `at`: gone once the TTL set
\* by the last EXPIRE has run out.
Stored(l, at) == IF at >= l.expireAt THEN {} ELSE l.zset

\* The script that inserts the caller's entry whether or not it admits.
slidingWindowScriptAlwaysAdds(zset, windowStart, nowArg, limit, rnd) ==
    LET kept == {m \in zset : m[1] > windowStart}
        count == Cardinality(kept)
    IN [zset |-> kept \cup {<<nowArg, rnd>>},
        result |-> IF count < limit THEN <<count + 1, 1>> ELSE <<count, 0>>]

\* slidingWindowScript: the set after the script and the pair it returns.
slidingWindowScript(zset, windowStart, nowArg, limit, rnd) ==
    LET kept == {m \in zset : m[1] > windowStart}
        count == Cardinality(kept)
    IN IF count < limit
       THEN [zset |-> kept \cup {<<nowArg, rnd>>}, result |-> <<count + 1, 1>>]
       ELSE [zset |-> kept, result |-> <<count, 0>>]

LimitResult(allowed, remaining, resetAt, retryAfter) ==
    [Allowed |-> allowed, Remaining |-> remaining, ResetAt |-> resetAt,
     RetryAfter |-> retryAfter]

\* The denial that leaves out the retry delay.
CheckResultNoRetryAfter(result, limit, window, nowRead) ==
    LimitResult(result[2] = 1,
                IF limit - result[1] < 0 THEN 0 ELSE limit - result[1],
                nowRead + window, 0)

\* What Check returns from the script's result (lines 79-98).
CheckResult(result, limit, window, nowRead) ==
    LET count == result[1]
        allowed == result[2] = 1
        remaining == IF limit - count < 0 THEN 0 ELSE limit - count
    IN LimitResult(allowed, remaining, nowRead + window,
                   IF allowed THEN 0 ELSE window \div 2)

IdleCheck == [pc |-> "idle", now |-> 0]

IdleLimiter ==
    [rdb |-> FALSE, limit |-> 1, window |-> 1, zset |-> {}, expireAt |-> 0,
     failed |-> FALSE]

\* What a caller got back; `script` is the pair the script returned, empty
\* when Check returned without running it.
Answer(c, at, result) ==
    [by |-> c, at |-> at, result |-> result, script |-> <<>>]

\* Check, lines 60-68: without a client the call passes; with one it reads
\* the clock and computes the script's arguments.
CheckRead(c) ==
    /\ checks[c].pc = "idle"
    /\ Len(answers) + Cardinality({d \in Callers : checks[d].pc = "sent"}) < MaxChecks
    /\ IF ~limiter.rdb
       THEN /\ answers' = Append(answers,
                   Answer(c, now, LimitResult(TRUE, limiter.limit - 1,
                                              now + limiter.window, 0)))
            /\ UNCHANGED checks
       ELSE /\ checks' = [checks EXCEPT ![c] = [pc |-> "sent", now |-> now]]
            /\ UNCHANGED answers
    /\ UNCHANGED <<cbVars, plVars, limiter, stream, mwVars, scan, ccVars>>

\* Check, lines 69-99: the script runs in the store at the present time, on
\* the arguments computed when the clock was read, and Check returns.
\* `up` is whether the store answers; `rnd` is what math.random draws.
CheckRun(c, rnd, up) ==
    /\ checks[c].pc = "sent"
    /\ checks' = [checks EXCEPT ![c] = IdleCheck]
    /\ IF ~up
       THEN /\ rnd = 1
            /\ limiter' = [limiter EXCEPT !.failed = TRUE]
            /\ answers' = Append(answers,
                   Answer(c, now, LimitResult(TRUE, limiter.limit,
                                              checks[c].now + limiter.window, 0)))
       ELSE LET nowRead == checks[c].now
                r == slidingWindowScript(Stored(limiter, now),
                                         nowRead - limiter.window, nowRead,
                                         limiter.limit, rnd)
            IN /\ limiter' = [limiter EXCEPT !.zset = r.zset,
                                             !.expireAt = now + limiter.window + 1]
               /\ answers' = Append(answers,
                      [Answer(c, now, CheckResult(r.result, limiter.limit,
                                                  limiter.window, nowRead))
                          EXCEPT !.script = r.result])
    /\ UNCHANGED <<cbVars, plVars, stream, mwVars, scan, ccVars>>

(***************************************************************************)
(* internal/router/adapters: TransformStreamChunk.  A data payload is the  *)
(* bytes after "data: ": `json` says whether they unmarshal into the event *)
(* struct, whose fields follow; `raw` is the text of any other payload.    *)
(***************************************************************************)
Payload(type, deltaType, text, stopReason) ==
    [json |-> TRUE, raw |-> "", type |-> type, index |-> 0,
     deltaType |-> deltaType, text |-> text, stopReason |-> stopReason]

Raw(text) ==
    [json |-> FALSE, raw |-> text, type |-> "", index |-> 0, deltaType |-> "",
     text |-> "", stopReason |-> ""]

MessageStart == Payload("message_start", "", "", "")
TextDelta(text) == Payload("content_block_delta", "text_delta", text, "")
InputJSONDelta == Payload("content_block_delta", "input_json_delta", "", "")
MessageDelta == Payload("message_delta", "", "", "end_turn")
MessageStop == Payload("message_stop", "", "", "")

\* The bytes "[DONE]", as a payload and as a translated chunk.
DoneBytes == Raw("[DONE]")

\* What a provider may send as the data of one event.
ProviderEvents ==
    {MessageStart, TextDelta("Hello"), TextDelta(" world"), InputJSONDelta,
     MessageDelta, MessageStop, DoneBytes, Raw("not json")}

\* A nil []byte.
Nil == [nil |-> TRUE]

NoFinishReason == "null"

mapStopReason(reason) ==
    CASE reason = "end_turn" -> "stop"
      [] reason = "max_tokens" -> "length"
      [] reason = "stop_sequence" -> "stop"
      [] OTHER -> reason

\* json.Marshal of an openAIStreamChunk with one choice.
openAIStreamChunk(index, content, finishReason) ==
    [choices |-> <<[index |-> index, delta |-> [content |-> content],
                    finish_reason |-> finishReason]>>]

\* A translation that turns the events it should skip into empty chunks.
AnthropicTransformNothingSkipped(chunk) ==
    IF chunk = MessageStop
    THEN [data |-> DoneBytes, err |-> FALSE]
    ELSE [data |-> openAIStreamChunk(chunk.index, chunk.text, NoFinishReason),
          err |-> FALSE]

\* AnthropicAdapter.TransformStreamChunk: the (bytes, error) pair.
AnthropicTransformStreamChunk(chunk) ==
    IF ~chunk.json
    THEN [data |-> Nil, err |-> FALSE]
    ELSE CASE chunk.type = "content_block_delta" ->
                IF chunk.deltaType = "text_delta"
                THEN [data |-> openAIStreamChunk(chunk.index, chunk.text,
                                                 NoFinishReason),
                      err |-> FALSE]
                ELSE [data |-> Nil, err |-> FALSE]
           [] chunk.type = "message_delta" ->
                [data |-> openAIStreamChunk(0, "", mapStopReason(chunk.stopReason)),
                 err |-> FALSE]
           [] chunk.type = "message_stop" ->
                [data |-> DoneBytes, err |-> FALSE]
           [] OTHER -> [data |-> Nil, err |-> FALSE]

\* OpenAIAdapter.TransformStreamChunk
OpenAITransformStreamChunk(chunk) == [data |-> chunk, err |-> FALSE]

\* adapter.TransformStreamChunk through the ProviderAdapter interface.
TransformStreamChunk(adapter, chunk) ==
    IF adapter = "anthropic"
    THEN AnthropicTransformStreamChunk(chunk)
    ELSE OpenAITransformStreamChunk(chunk)

(***************************************************************************)
(* internal/gateway: handleStream and streamSSE.  A line of the provider   *)
(* body is a data line, an event line, a blank line or any other line; a   *)
(* write to the client is a data frame ("data: <bytes>\n\n"), an event     *)
(* line ("event: <name>\n") or a blank line ("\n").                        *)
(***************************************************************************)
DataLine(payload) == [kind |-> "data", payload |-> payload]
EventLine(name) == [kind |-> "event", name |-> name]
BlankLine == [kind |-> "blank"]
OtherLine == [kind |-> "other"]

\* The ways a provider frames one event as lines of its body.
WireFormats == {"data", "data_blank", "event_data_blank", "comment_data_blank"}

Wire(payload, format) ==
    CASE format = "data" -> <<DataLine(payload)>>
      [] format = "data_blank" -> <<DataLine(payload), BlankLine>>
      [] format = "event_data_blank" ->
            <<EventLine(payload.type), DataLine(payload), BlankLine>>
      [] OTHER -> <<OtherLine, DataLine(payload), BlankLine>>

LogStarted == "streaming started"
LogTransform == "failed to transform stream chunk"
LogRead == "error reading stream"

IdleStream ==
    [pc |-> "idle", adapter |-> NoAdapter, wire |-> "data", pending |-> <<>>,
     nEvents |-> 0, datas |-> <<>>, out |-> <<>>, status |-> 0, log |-> <<>>]

\* The loop body that writes [DONE] and goes on reading.
ScanLineReadsOn(s, line) ==
    IF line.kind # "data"
    THEN IF line.kind \in {"event", "blank"}
         THEN [s EXCEPT !.out = Append(@, line)]
         ELSE s
    ELSE LET data == line.payload
             seen == [s EXCEPT !.datas = Append(@, data)]
             done == [seen EXCEPT !.out = Append(@, DataLine(DoneBytes))]
         IN IF data = DoneBytes
            THEN done
            ELSE LET t == TransformStreamChunk(s.adapter, data) IN
                 IF t.err THEN [seen EXCEPT !.log = Append(@, LogTransform)]
                 ELSE IF t.data = Nil THEN seen
                 ELSE IF t.data = DoneBytes THEN done
                 ELSE [seen EXCEPT !.out = Append(@, DataLine(t.data))]

\* The body of streamSSE's loop on one scanned line (lines 37-79): the
\* stream after it, with pc "closed" where the function returns.
ScanLine(s, line) ==
    IF line.kind # "data"
    THEN IF line.kind \in {"event", "blank"}
         THEN [s EXCEPT !.out = Append(@, line)]
         ELSE s
    ELSE LET data == line.payload
             seen == [s EXCEPT !.datas = Append(@, data)]
             done == [seen EXCEPT !.out = Append(@, DataLine(DoneBytes)),
                                  !.pc = "closed"]
         IN IF data = DoneBytes
            THEN done
            ELSE LET t == TransformStreamChunk(s.adapter, data) IN
                 IF t.err THEN [seen EXCEPT !.log = Append(@, LogTransform)]
                 ELSE IF t.data = Nil THEN seen
                 ELSE IF t.data = DoneBytes THEN done
                 ELSE [seen EXCEPT !.out = Append(@, DataLine(t.data))]

\* handleStream after a 200 from the provider (lines 222-231) and the start
\* of streamSSE (lines 17-34).  `flusher` is whether the writer can flush.
StreamStart(a, format, flusher) ==
    /\ stream.pc = "idle"
    /\ LET s == [IdleStream EXCEPT !.adapter = a, !.wire = format,
                                   !.log = <<LogStarted>>]
       IN IF ~flusher
          THEN stream' = [s EXCEPT !.pc = "closed",
                                   !.status = WriteInternalError.status]
          ELSE stream' = [s EXCEPT !.pc = "reading", !.status = 200]
    /\ UNCHANGED <<cbVars, plVars, rlVars, mwVars, scan, ccVars>>

\* scanner.Scan() yields a line: the next line of the event in flight, or
\* the first line of the event `e` the provider sends next.
Scan(e) ==
    /\ stream.pc = "reading"
    /\ IF stream.pending = <<>>
       THEN stream.nEvents < MaxEvents
       ELSE e = MessageStart
    /\ LET fresh == stream.pending = <<>>
           lines == IF fresh THEN Wire(e, stream.wire) ELSE stream.pending
           s == [stream EXCEPT !.pending = Tail(lines),
                               !.nEvents = IF fresh THEN @ + 1 ELSE @]
       IN stream' = ScanLine(s, Head(lines))
    /\ UNCHANGED <<cbVars, plVars, rlVars, mwVars, scan, ccVars>>

\* scanner.Scan() yields false (lines 81-83): the body ended, or reading it
\* failed.
EndOfBody(readErr) ==
    /\ stream.pc = "reading"
    /\ stream' = [stream EXCEPT !.pc = "closed", !.pending = <<>>,
                                !.log = IF readErr THEN Append(@, LogRead) ELSE @]
    /\ UNCHANGED <<cbVars, plVars, rlVars, mwVars, scan, ccVars>>

(***************************************************************************)
(* internal/auth: the key store and the authentication middleware.  Model  *)
(* time is counted in half minutes.  A Go string made of a prefix and a    *)
(* rest is a sequence of its parts (the empty string is <<>>), and a       *)
(* pointer is a sequence of at most one element (nil is <<>>).             *)
(***************************************************************************)
Minute == 2

redisCacheTTL == 5 * Minute

\* The API keys clients present: "k1" was minted, "k0" never was.
Tokens == {"k1", "k0"}

\* HashKey: SHA-256 of the key, distinct for distinct keys.
HashKey(key) == <<"sha256", key>>

KeyHashes == {HashKey(k) : k \in Tokens}

\* strings.TrimPrefix
TrimPrefix(s, prefix) == IF s # <<>> /\ s[1] = prefix THEN Tail(s) ELSE s

\* KeyMetadata, with the fields the middlewares read.
KeyMetadata(id, team, user, rpm, cap) ==
    [ID |-> id, TeamID |-> team, UserID |-> user, RPMLimit |-> rpm,
     DailySpendLimitCents |-> cap]

MetaFields == {"ID", "TeamID", "UserID", "RPMLimit", "DailySpendLimitCents"}

\* The fields tagged omitempty and the value each is left out at.
OmitEmpty == {"UserID", "RPMLimit", "DailySpendLimitCents"}

EmptyValue(f) == IF f \in {"ID", "TeamID", "UserID"} THEN "" ELSE <<>>

\* The JSON member name of a field.
JSONName(f) ==
    CASE f = "ID" -> "id"
      [] f = "TeamID" -> "team_id"
      [] f = "UserID" -> "user_id"
      [] f = "RPMLimit" -> "rpm_limit"
      [] f = "DailySpendLimitCents" -> "daily_spend_limit_cents"

FieldOf(n) == CHOOSE f \in MetaFields : JSONName(f) = n

\* MarshalJSON: the JSON object, as a function from member name to value.
MarshalJSON(km) ==
    LET kept == {f \in MetaFields : ~(f \in OmitEmpty /\ km[f] = EmptyValue(f))}
    IN [n \in {JSONName(f) : f \in kept} |-> km[FieldOf(n)]]

\* UnmarshalJSON: a member that is absent leaves the field at its zero value.
UnmarshalJSON(data) ==
    [f \in MetaFields |->
        IF JSONName(f) \in DOMAIN data THEN data[JSONName(f)] ELSE EmptyValue(f)]

NoMeta == KeyMetadata("", "", "", <<>>, <<>>)

\* A key of the cache: absent, or a value with the time its TTL runs out.
NoEntry == [set |-> FALSE, data |-> MarshalJSON(NoMeta), expireAt |-> 0]

\* A row of api_keys: absent, or its status, expiry and metadata.
NoRow == [exists |-> FALSE, status |-> "", expires_at |-> 0, meta |-> NoMeta]

\* What the last Lookup did, in the stores as they answered at the time.
NoLookup ==
    [keyHash |-> <<>>, hit |-> FALSE, queried |-> FALSE,
     wrote |-> FALSE, meta |-> <<>>, err |-> FALSE, dbUp |-> TRUE,
     setUp |-> TRUE, cached |-> FALSE]

\* NewCachedKeyStore
\* hitAt is history: when the authoritative store last returned each key.
NewCachedKeyStore(rows, rdb) ==
    [redis |-> rdb, cache |-> [h \in KeyHashes |-> NoEntry], rows |-> rows,
     last |-> NoLookup, hitAt |-> [h \in KeyHashes |-> ZeroTime]]

\* The answer to an error of the stored lookup written as an unknown key.
lookupDBErrorAsMissing(rows, keyHash, at, up) ==
    IF up /\ rows[keyHash].exists /\ rows[keyHash].status = "active"
          /\ rows[keyHash].expires_at > at
    THEN [meta |-> <<rows[keyHash].meta>>, err |-> FALSE]
    ELSE [meta |-> <<>>, err |-> FALSE]

\* lookupDB: `up` is whether the query is answered.
lookupDB(rows, keyHash, at, up) ==
    IF ~up
    THEN [meta |-> <<>>, err |-> TRUE]
    ELSE IF rows[keyHash].exists /\ rows[keyHash].status = "active"
            /\ rows[keyHash].expires_at > at
         THEN [meta |-> <<rows[keyHash].meta>>, err |-> FALSE]
         ELSE [meta |-> <<>>, err |-> FALSE]

\* The cache answers a GET of the key at time `at` with a value.
Cached(ks, keyHash, at, getUp) ==
    ks.redis /\ getUp /\ ks.cache[keyHash].set /\ at < ks.cache[keyHash].expireAt

\* The lookup that asks the authoritative store before the cache.
LookupStoreFirst(ks, keyHash, at, getUp, setUp, dbUp) ==
    LET r == lookupDB(ks.rows, keyHash, at, dbUp)
    IN [meta |-> r.meta, err |-> r.err, cache |-> ks.cache,
        hit |-> FALSE, queried |-> TRUE, wrote |-> FALSE]

\* Lookup whose cache hit writes the entry again with a fresh time to live.
LookupHitRefreshes(ks, keyHash, at, getUp, setUp, dbUp) ==
    LET e == ks.cache[keyHash]
        hit == Cached(ks, keyHash, at, getUp)
        r == lookupDB(ks.rows, keyHash, at, dbUp)
        wrote == ~r.err /\ r.meta # <<>> /\ ks.redis /\ setUp
    IN IF hit
       THEN [meta |-> <<UnmarshalJSON(e.data)>>, err |-> FALSE,
             cache |-> [ks.cache EXCEPT ![keyHash].expireAt = at + redisCacheTTL],
             hit |-> TRUE, queried |-> FALSE, wrote |-> FALSE]
       ELSE [meta |-> r.meta, err |-> r.err,
             cache |-> IF wrote
                       THEN [ks.cache EXCEPT ![keyHash] =
                               [set |-> TRUE, data |-> MarshalJSON(r.meta[1]),
                                expireAt |-> at + redisCacheTTL]]
                       ELSE ks.cache,
             hit |-> FALSE, queried |-> TRUE, wrote |-> wrote]

\* Lookup: `getUp` and `setUp` are whether the cache answers the GET and
\* takes the SET.  The cache holds only what Lookup wrote, so what it
\* returns unmarshals.
Lookup(ks, keyHash, at, getUp, setUp, dbUp) ==
    LET e == ks.cache[keyHash]
        hit == Cached(ks, keyHash, at, getUp)
        r == lookupDB(ks.rows, keyHash, at, dbUp)
        wrote == ~r.err /\ r.meta # <<>> /\ ks.redis /\ setUp
    IN IF hit
       THEN [meta |-> <<UnmarshalJSON(e.data)>>, err |-> FALSE,
             cache |-> ks.cache, hit |-> TRUE, queried |-> FALSE,
             wrote |-> FALSE]
       ELSE [meta |-> r.meta, err |-> r.err,
             cache |-> IF wrote
                       THEN [ks.cache EXCEPT ![keyHash] =
                               [set |-> TRUE, data |-> MarshalJSON(r.meta[1]),
                                expireAt |-> at + redisCacheTTL]]
                       ELSE ks.cache,
             hit |-> FALSE, queried |-> TRUE, wrote |-> wrote]

\* AuthInfo built from the metadata (middleware, lines 190-200).
AuthInfo(meta) ==
    [KeyID |-> meta.ID, TeamID |-> meta.TeamID, UserID |-> meta.UserID,
     RPMLimit |-> meta.RPMLimit,
     DailySpendLimitCents |-> meta.DailySpendLimitCents]

\* The Authorization headers clients send: none, another scheme, a Bearer
\* scheme with no key, and a Bearer scheme with each key.
AuthHeaders ==
    {<<>>, <<"Basic ", "k1">>, <<"Bearer ">>} \cup {<<"Bearer ", k>> : k \in Tokens}

\* The handlers a request passes, as main.go chains them on the
\* authenticated routes, and as the tests of each middleware chain them.
RoutesChain == <<"auth", "ratelimit", "handler">>
AuthChain == <<"auth", "handler">>
RateLimitChain == <<"ratelimit", "handler">>

\* The request and what the middlewares have made of it: the handler it is
\* at, the auth info in its context, the response headers set so far, the
\* response, whether the last handler was invoked and the cost of the
\* completion it returned, and what the two checks answered.
\* Request ids are sequences of words; the empty one is the absent header.
NoRequestID == <<>>

\* generateRequestID: "req_" and a part drawn from the clock and rand.Read,
\* here the draw `n`.
generateRequestID(n) == <<"req_", n>>

\* The middleware that mints an id whatever the request carries.
requestIDMiddlewareMints(incoming, minted) == minted

\* requestIDMiddleware: the id it sets as the response's X-Request-ID
\* header, given the request's own header and the id it would mint.
requestIDMiddleware(incoming, minted) ==
    IF incoming = NoRequestID THEN minted ELSE incoming

\* The body WriteError encodes: APIError{Error: APIErrorBody{...}}, whose
\* aegis_request_id member is tagged omitempty.
APIErrorBody(requestID, response) ==
    LET members == IF requestID = NoRequestID
                   THEN {"message", "type", "code"}
                   ELSE {"message", "type", "code", "aegis_request_id"}
    IN [m \in members |->
          CASE m = "message" -> <<"text">>
            [] m = "type" -> <<response.type>>
            [] m = "code" -> <<response.code>>
            [] m = "aegis_request_id" -> requestID]

NoBody == <<>>

NewFront(chain, n, authHeader, info) ==
    [chain |-> chain, pc |-> chain[1], n |-> n, authHeader |-> authHeader,
     info |-> info, rateHeaders |-> <<>>, retryAfter |-> <<>>,
     response |-> NoResponse, handled |-> FALSE, cost |-> 0,
     checked |-> <<>>, budgeted |-> <<>>,
     incoming |-> NoRequestID, xRequestID |-> NoRequestID, body |-> NoBody]

IdleFront(chain) == [NewFront(chain, 0, <<>>, <<>>) EXCEPT !.pc = "idle"]

\* next.ServeHTTP: the handler after `h` in the chain takes the request.
ServeNext(f, h) ==
    [f EXCEPT !.pc = f.chain[1 + CHOOSE i \in 1..Len(f.chain) : f.chain[i] = h]]

\* The handler answers: a 200, or one of the Write...Error wrappers called
\* with reqID := w.Header().Get("X-Request-ID"), which sets that header
\* again and encodes the error body.
Respond(f, response) ==
    IF response.status < 400
    THEN [f EXCEPT !.pc = "done", !.response = response]
    ELSE LET reqID == f.xRequestID IN
         [f EXCEPT !.pc = "done", !.response = response,
                   !.xRequestID = reqID,
                   !.body = APIErrorBody(reqID, response)]

\* Middleware of internal/auth: `getUp`, `setUp` and `dbUp` are whether the
\* cache and the authoritative store answer the lookup's calls.
AuthMiddleware(getUp, setUp, dbUp) ==
    /\ front.pc = "auth"
    /\ LET authHeader == front.authHeader
           token == TrimPrefix(authHeader, "Bearer ")
       IN IF authHeader = <<>> \/ token = authHeader \/ token = <<>>
          THEN /\ getUp /\ setUp /\ dbUp
               /\ front' = Respond(front, WriteAuthError)
               /\ UNCHANGED keystore
          ELSE LET keyHash == HashKey(token[1])
                   l == Lookup(keystore, keyHash, now, getUp, setUp, dbUp)
               IN /\ keystore' =
                        [keystore EXCEPT !.cache = l.cache,
                            !.last = [keyHash |-> keyHash,
                                      hit |-> l.hit, queried |-> l.queried,
                                      wrote |-> l.wrote, meta |-> l.meta,
                                      err |-> l.err, dbUp |-> dbUp,
                                      setUp |-> setUp,
                                      cached |-> Cached(keystore, keyHash,
                                                        now, getUp)],
                            !.hitAt[keyHash] =
                                IF l.queried /\ ~l.err /\ l.meta # <<>>
                                THEN now ELSE @]
                  /\ front' =
                        IF l.err THEN Respond(front, WriteInternalError)
                        ELSE IF l.meta = <<>> THEN Respond(front, WriteAuthError)
                        ELSE ServeNext([front EXCEPT !.info = <<AuthInfo(l.meta[1])>>],
                                       "auth")
    /\ UNCHANGED <<cbVars, plVars, rlVars, stream, budget, scan, ccVars>>

(***************************************************************************)
(* internal/ratelimit: the budget tracker and the middleware.              *)
(***************************************************************************)
defaultRPM == 60

Teams == {"t1"}

\* The clock starts Midnight half minutes before the end of a UTC day.
Day(at) == IF at < Midnight THEN 0 ELSE 1

Days == {0, 1}

dailyBudgetKey(teamID, at) == <<teamID, Day(at)>>

BudgetResult(allowed, spent, limit) ==
    [Allowed |-> allowed, SpentCents |-> spent, LimitCents |-> limit]

\* NewBudgetTracker, with the counters the store holds (a key that is absent
\* reads as 0).  A day's key outlives its day, and no other day reads it.
NewBudgetTracker(rdb) ==
    [rdb |-> rdb, spent |-> [k \in Teams \X Days |-> 0]]

\* The check that also admits a tally equal to the cap.
CheckDailySpendInclusive(b, teamID, limitCents, at, up) ==
    IF ~b.rdb \/ ~up
    THEN BudgetResult(TRUE, 0, limitCents)
    ELSE BudgetResult(b.spent[dailyBudgetKey(teamID, at)] <= limitCents,
                      b.spent[dailyBudgetKey(teamID, at)], limitCents)

\* The check that denies when the store does not answer.
CheckDailySpendFailClosed(b, teamID, limitCents, at, up) ==
    IF ~b.rdb \/ ~up
    THEN BudgetResult(FALSE, 0, limitCents)
    ELSE BudgetResult(b.spent[dailyBudgetKey(teamID, at)] < limitCents,
                      b.spent[dailyBudgetKey(teamID, at)], limitCents)

\* CheckDailySpend: `up` is whether the store answers the GET.
CheckDailySpend(b, teamID, limitCents, at, up) ==
    IF ~b.rdb
    THEN BudgetResult(TRUE, 0, limitCents)
    ELSE IF ~up
         THEN BudgetResult(TRUE, 0, limitCents)
         ELSE LET spent == b.spent[dailyBudgetKey(teamID, at)]
              IN BudgetResult(spent < limitCents, spent, limitCents)

\* RecordSpend: the tracker after the call; `up` is whether the pipeline runs.
RecordSpend(b, teamID, costCents, at, up) ==
    IF ~b.rdb \/ costCents <= 0 \/ ~up
    THEN b
    ELSE [b EXCEPT !.spent[dailyBudgetKey(teamID, at)] = @ + costCents]

WriteRateLimitError == WriteError(429, "rate_limit_error", "rate_limit_exceeded")
WriteBudgetExceededError == WriteError(402, "budget_error", "budget_exceeded")

\* Limiter.Check as one step at time `at`: the limiter after the call and the
\* LimitResult returned.  `up` is whether the store runs the script.
Check(l, limit, window, at, rnd, up) ==
    IF ~l.rdb
    THEN [limiter |-> l, result |-> LimitResult(TRUE, limit - 1, at + window, 0)]
    ELSE IF ~up
         THEN [limiter |-> [l EXCEPT !.failed = TRUE],
               result |-> LimitResult(TRUE, limit, at + window, 0)]
         ELSE LET r == slidingWindowScript(Stored(l, at), at - window, at,
                                           limit, rnd)
              IN [limiter |-> [l EXCEPT !.zset = r.zset, !.limit = limit,
                                        !.window = window,
                                        !.expireAt = at + window + 1],
                  result |-> CheckResult(r.result, limit, window, at)]

\* The entries the sorted set holds inside the window that ends at `at`.
Held(l, window, at) ==
    Cardinality({m \in Stored(l, at) : m[1] > at - window})

\* Duration.Seconds, truncated to an int: a half minute is 30 seconds.
Seconds(d) == 30 * d

\* The headers that always name the default limit.
RateHeadersDefaultLimit(rpm, result) ==
    [Limit |-> defaultRPM, Remaining |-> result.Remaining,
     Reset |-> result.ResetAt]

\* The three headers set on line 49-51; the reset time is written to the
\* second, and the model's clock reads whole half minutes.
RateHeaders(rpm, result) ==
    [Limit |-> rpm, Remaining |-> result.Remaining, Reset |-> result.ResetAt]

\* Middleware of internal/ratelimit: `rnd` is the script's random draw, `up`
\* and `budgetUp` are whether the store answers the script and the GET.
RateLimitMiddleware(rnd, up, budgetUp) ==
    /\ front.pc = "ratelimit"
    /\ IF front.info = <<>>
       THEN /\ rnd = 1 /\ up /\ budgetUp
            /\ front' = ServeNext(front, "ratelimit")
            /\ UNCHANGED limiter
       ELSE LET authInfo == front.info[1]
                rpm == IF authInfo.RPMLimit # <<>> THEN authInfo.RPMLimit[1]
                       ELSE defaultRPM
                c == Check(limiter, rpm, Minute, now, rnd, up)
                result == c.result
                hdr == [front EXCEPT !.rateHeaders = <<RateHeaders(rpm, result)>>,
                                     !.checked = <<[held |-> Held(limiter, Minute, now),
                                                    result |-> result,
                                                    up |-> limiter.rdb /\ up]>>]
            IN /\ limiter' = c.limiter
               /\ IF ~result.Allowed
                  THEN /\ budgetUp
                       /\ front' = Respond([hdr EXCEPT !.retryAfter =
                                               <<Seconds(result.RetryAfter)>>],
                                           WriteRateLimitError)
                  ELSE IF authInfo.DailySpendLimitCents # <<>>
                  THEN LET budgetResult ==
                               CheckDailySpend(budget, authInfo.TeamID,
                                   authInfo.DailySpendLimitCents[1], now, budgetUp)
                           seen == [hdr EXCEPT !.budgeted =
                                      <<[result |-> budgetResult,
                                         up |-> budget.rdb /\ budgetUp]>>]
                       IN front' = IF ~budgetResult.Allowed
                                   THEN Respond(seen, WriteBudgetExceededError)
                                   ELSE ServeNext(seen, "ratelimit")
                  ELSE /\ budgetUp
                       /\ front' = ServeNext(hdr, "ratelimit")
    /\ UNCHANGED <<cbVars, plVars, checks, answers, stream, keystore, budget, scan, ccVars>>

\* The responses Handler.ChatCompletions writes.
HandlerResponses ==
    {OKResponse, WriteBadRequestError, WriteContentBlockedError,
     WriteServiceUnavailableError}

\* The last handler of the chain, Handler.ChatCompletions, serves the
\* request and writes `response`; a completion it returns has an estimated
\* cost of `cost` cents.  The handler holds no budget tracker and records
\* no spend.
\* A handler that takes the request's entry out of the window again when it
\* answers with an error.
ChatCompletionsRefunds(response, cost) ==
    /\ front.pc = "handler"
    /\ response # OKResponse => cost = 0
    /\ front' = [Respond(front, response) EXCEPT !.handled = TRUE,
                                                  !.cost = cost]
    /\ limiter' = IF response = OKResponse THEN limiter
                  ELSE [limiter EXCEPT !.zset = {m \in @ : m[2] # front.n}]
    /\ UNCHANGED <<cbVars, plVars, checks, answers, stream, keystore, budget,
                   scan, ccVars>>

ChatCompletions(response, cost) ==
    /\ front.pc = "handler"
    /\ response # OKResponse => cost = 0
    /\ front' = [Respond(front, response) EXCEPT !.handled = TRUE,
                                                  !.cost = cost]
    /\ UNCHANGED <<cbVars, plVars, rlVars, stream, keystore, budget, scan, ccVars>>

\* A request arrives at the first handler of the chain, with `info` in its
\* context and `incoming` as its X-Request-ID header.  The router of main.go
\* passes it through requestIDMiddleware first; the chains the middleware
\* tests build do not.
FrontArrive(authHeader, info, incoming) ==
    /\ front.pc \in {"idle", "done"}
    /\ front.n < MaxFront
    /\ front' = [NewFront(front.chain, front.n + 1, authHeader, info) EXCEPT
                    !.incoming = incoming,
                    !.xRequestID =
                        IF front.chain = RoutesChain
                        THEN requestIDMiddleware(incoming,
                                 generateRequestID(front.n + 1))
                        ELSE NoRequestID]
    /\ keystore' = [keystore EXCEPT !.last = NoLookup]
    /\ UNCHANGED <<cbVars, plVars, rlVars, stream, budget, scan, ccVars>>

\* A caller of the tracker records a spend, before the requests arrive.
CallRecordSpend(teamID, costCents, up) ==
    /\ front.pc = "idle"
    /\ budget.spent[dailyBudgetKey(teamID, now)] + costCents <= MaxCap
    /\ budget' = RecordSpend(budget, teamID, costCents, now, up)
    /\ UNCHANGED <<cbVars, plVars, rlVars, stream, keystore, front, scan, ccVars>>

\* The state of the components a specification does not drive.
FrontIdle ==
    /\ scan = NoScan
    /\ ConcIdle
    /\ keystore = NewCachedKeyStore([h \in KeyHashes |-> NoRow], FALSE)
    /\ budget = NewBudgetTracker(FALSE)
    /\ front = IdleFront(RoutesChain)

AuxIdle ==
    /\ limiter = IdleLimiter
    /\ checks = [c \in Callers |-> IdleCheck]
    /\ answers = <<>>
    /\ stream = IdleStream
    /\ FrontIdle

(***************************************************************************)
(* SpecCB: callers drive the health tracker and its breakers directly.     *)
(***************************************************************************)
\* call: the operation, the provider, the breaker before the call, the answer.
NewCall(op, p, was, ret) == [op |-> op, p |-> p, was |-> was, ret |-> ret]

NoCall == NewCall("none", "", NoBreaker, "")

InitCB ==
    /\ now = 0
    /\ failureThreshold \in 1..MaxThreshold
    /\ recoveryProbeInterval \in 1..MaxInterval
    /\ breakers = NewHealthTracker
    /\ call = NoCall
    /\ modelsCfg = NoModels
    /\ registry = NewRegistry
    /\ filterCfg = [f \in FilterSet |-> FALSE]
    /\ req = IdleRequest
    /\ served = 0
    /\ AuxIdle

\* The clock advances; nothing else changes.
Tick ==
    /\ now < MaxTime
    /\ now' = now + 1
    /\ UNCHANGED <<auxVars, failureThreshold, recoveryProbeInterval, breakers, plVars>>
    /\ call' = NewCall("Tick", "", NoBreaker, "")

\* ht.IsAvailable(p)
CallIsAvailable(p) ==
    LET r == IsAvailable(breakers, p, failureThreshold, recoveryProbeInterval, now) IN
    /\ breakers' = r.breakers
    /\ call' = NewCall("Allow", p, breakers[p], r.ret)
    /\ UNCHANGED <<auxVars, now, failureThreshold, recoveryProbeInterval, plVars>>

\* ht.GetBreaker(p).State()
CallState(p) ==
    LET b == GetBreaker(breakers, p, failureThreshold, recoveryProbeInterval)
        r == State(b[p], now)
    IN
    /\ breakers' = [b EXCEPT ![p] = r.cb]
    /\ call' = NewCall("State", p, breakers[p], r.ret)
    /\ UNCHANGED <<auxVars, now, failureThreshold, recoveryProbeInterval, plVars>>

\* ht.RecordSuccess(p)
CallRecordSuccess(p) ==
    LET b == HTRecordSuccess(breakers, p, failureThreshold, recoveryProbeInterval) IN
    /\ breakers' = b
    /\ call' = NewCall("RecordSuccess", p, breakers[p], "")
    /\ UNCHANGED <<auxVars, now, failureThreshold, recoveryProbeInterval, plVars>>

\* ht.RecordFailure(p)
CallRecordFailure(p) ==
    LET b == HTRecordFailure(breakers, p, failureThreshold, recoveryProbeInterval, now) IN
    /\ b[p].failures <= MaxCount
    /\ breakers' = b
    /\ call' = NewCall("RecordFailure", p, breakers[p], "")
    /\ UNCHANGED <<auxVars, now, failureThreshold, recoveryProbeInterval, plVars>>

\* ht.GetBreaker(p).Reset()
CallReset(p) ==
    LET b == GetBreaker(breakers, p, failureThreshold, recoveryProbeInterval) IN
    /\ breakers' = [b EXCEPT ![p] = Reset(b[p])]
    /\ call' = NewCall("Reset", p, breakers[p], "")
    /\ UNCHANGED <<auxVars, now, failureThreshold, recoveryProbeInterval, plVars>>

NextCB ==
    \/ Tick
    \/ \E p \in Probed : CallIsAvailable(p)
    \/ \E p \in Probed : CallState(p)
    \/ \E p \in Probed : CallRecordSuccess(p)
    \/ \E p \in Probed : CallRecordFailure(p)
    \/ \E p \in Probed : CallReset(p)

SpecCB == InitCB /\ [][NextCB]_vars

(***************************************************************************)
(* Spec: the handler serves MaxRequests requests one after the other over  *)
(* a fixed configuration, while the clock advances.                        *)
(***************************************************************************)
NewRoute(p, m, c) == [provider |-> p, model |-> m, ceiling |-> c]

\* The mappings of the router's tests: "test-model" gates its primary by
\* classification, "gpt-4o" has two routes of the same ceiling.
ServedModels ==
    [a \in {"test-model", "gpt-4o"} |->
        IF a = "test-model"
        THEN [primary |-> NewRoute("openai", "gpt-4o", ClassInternal),
              fallback |-> <<NewRoute("internal_vllm", "llama-70b", ClassRestricted)>>]
        ELSE [primary |-> NewRoute("openai", "gpt-4o", ClassConfidential),
              fallback |-> <<NewRoute("anthropic", "claude-sonnet", ClassConfidential)>>]]

\* BuildFromConfig: "openai" and "anthropic" by their type, any other type
\* (here internal_vllm) as an OpenAI-compatible adapter.
BuiltRegistry ==
    [p \in Providers |-> IF p = "anthropic" THEN "anthropic" ELSE "openai"]

Init ==
    /\ now = 0
    /\ failureThreshold \in 1..MaxThreshold
    /\ recoveryProbeInterval \in 1..MaxInterval
    /\ breakers = NewHealthTracker
    /\ call = NoCall
    /\ modelsCfg = ServedModels
    /\ registry = BuiltRegistry
    /\ filterCfg = [f \in FilterSet |-> f = "secrets"]
    /\ req = IdleRequest
    /\ served = 0
    /\ AuxIdle

Next ==
    \/ Tick
    \/ \E a \in Arrivals : Arrive(a)
    \/ \E action \in Actions : FilterStep(action)
    \/ \E xformErr \in BOOLEAN : Route(xformErr)
    \/ \E ok, status200 \in BOOLEAN : Send(ok, status200)
    \/ \E ok \in BOOLEAN : Translate(ok)
    \/ \E ok, status200 \in BOOLEAN : HandleStream(ok, status200)

Spec == Init /\ [][Next]_vars

(***************************************************************************)
(* SpecChain: one request goes through the handler, under every setting of *)
(* the four Enabled() switches and every answer of the filters.            *)
(***************************************************************************)
InitChain ==
    /\ now = 0
    /\ failureThreshold = MaxThreshold
    /\ recoveryProbeInterval = MaxInterval
    /\ breakers = NewHealthTracker
    /\ call = NoCall
    /\ modelsCfg = ServedModels
    /\ registry = BuiltRegistry
    /\ filterCfg \in [FilterSet -> BOOLEAN]
    /\ req = IdleRequest
    /\ served = MaxRequests - 1
    /\ AuxIdle

NextChain ==
    \/ \E a \in Arrivals : Arrive(a)
    \/ \E action \in Actions : FilterStep(action)
    \/ \E xformErr \in BOOLEAN : Route(xformErr)
    \/ \E ok, status200 \in BOOLEAN : Send(ok, status200)
    \/ \E ok \in BOOLEAN : Translate(ok)
    \/ \E ok, status200 \in BOOLEAN : HandleStream(ok, status200)

SpecChain == InitChain /\ [][NextChain]_vars

(***************************************************************************)
(* SpecEnrich: one request goes through the handler, for every principal's *)
(* tier and allowed-models list and every choice of identity members in    *)
(* the body, under every setting of the Enabled() switches.                *)
(***************************************************************************)
NextEnrich ==
    \/ \E a \in EnrichArrivals : Arrive(a)
    \/ \E action \in Actions : FilterStep(action)
    \/ \E xformErr \in BOOLEAN : Route(xformErr)
    \/ \E ok, status200 \in BOOLEAN : Send(ok, status200)
    \/ \E ok \in BOOLEAN : Translate(ok)
    \/ \E ok, status200 \in BOOLEAN : HandleStream(ok, status200)

SpecEnrich == InitChain /\ [][NextEnrich]_vars

(***************************************************************************)
(* SpecRoute: route resolution as a function of its inputs.  Init draws    *)
(* the mapping of the alias "m", the registry, the request's tier and the  *)
(* breakers; the handler's routing step applies ResolveRoute.              *)
(***************************************************************************)
\* Ceilings a route may be configured with: none, two tiers, an unknown word.
RouteCeilings == {"", ClassInternal, ClassRestricted, "SECRET"}

\* Tiers a request may carry: the four tiers and an unknown word.
RouteClasses == KnownClasses \cup {"SECRET"}

RouteSet == {NewRoute(p, p, c) : p \in Providers, c \in RouteCeilings}

FallbackLists == UNION {[1..n -> RouteSet] : n \in 0..MaxFallback}

\* The providers BuildFromConfig found configured: all, all but one, none.
RegisteredSets == {Providers} \cup {Providers \ {p} : p \in {"openai", "anthropic"}} \cup {{}}

\* A breaker that opened at time t after failureThreshold failures.
OpenedAt(t, ft, rpi) ==
    [NewCircuitBreaker(ft, rpi) EXCEPT !.state = StateOpen, !.failures = ft,
                                       !.openedAt = t]

InitRoute ==
    /\ now = MaxInterval
    /\ failureThreshold = 1
    /\ recoveryProbeInterval = MaxInterval
    /\ call = NoCall
    /\ \E primary \in RouteSet, fallback \in FallbackLists :
          modelsCfg = [a \in {"m"} |-> [primary |-> primary, fallback |-> fallback]]
    /\ \E registered \in RegisteredSets :
          registry = [p \in Providers |->
                        IF p \in registered THEN BuiltRegistry[p] ELSE NoAdapter]
    /\ \E bo, ba \in {NoBreaker, OpenedAt(0, 1, MaxInterval),
                       OpenedAt(MaxInterval, 1, MaxInterval)} :
          breakers = [NewHealthTracker EXCEPT !["openai"] = bo, !["anthropic"] = ba]
    /\ filterCfg = [f \in FilterSet |-> FALSE]
    /\ \E c \in RouteClasses :
          req = [IdleRequest EXCEPT !.pc = "route", !.model = "m",
                                    !.classification = c]
    /\ served = 1
    /\ AuxIdle

NextRoute == \E xformErr \in BOOLEAN : Route(xformErr)

SpecRoute == InitRoute /\ [][NextRoute]_vars

(***************************************************************************)
(* SpecRL: concurrent callers check one rate-limit key while the clock     *)
(* advances.                                                               *)
(***************************************************************************)
\* The breakers, the pipeline and the stream at rest.
RestIdle ==
    /\ failureThreshold = 1
    /\ recoveryProbeInterval = 1
    /\ breakers = NewHealthTracker
    /\ call = NoCall
    /\ modelsCfg = NoModels
    /\ registry = NewRegistry
    /\ filterCfg = [f \in FilterSet |-> FALSE]
    /\ req = IdleRequest
    /\ served = 0

InitRL ==
    /\ now = 0
    /\ RestIdle
    /\ \E rdb \in BOOLEAN, limit \in 1..MaxLimit, window \in 1..MaxWindow :
          limiter = [IdleLimiter EXCEPT !.rdb = rdb, !.limit = limit,
                                        !.window = window]
    /\ checks = [c \in Callers |-> IdleCheck]
    /\ answers = <<>>
    /\ stream = IdleStream
    /\ FrontIdle

NextRL ==
    \/ Tick
    \/ \E c \in Callers : CheckRead(c)
    \/ \E c \in Callers, rnd \in RandomDraws, up \in BOOLEAN : CheckRun(c, rnd, up)

SpecRL == InitRL /\ [][NextRL]_vars

(***************************************************************************)
(* SpecStream: one stream is forwarded, over every provider body of at     *)
(* most MaxEvents events in every framing.                                 *)
(***************************************************************************)
InitStream ==
    /\ now = 0
    /\ RestIdle
    /\ limiter = IdleLimiter
    /\ checks = [c \in Callers |-> IdleCheck]
    /\ answers = <<>>
    /\ stream = IdleStream
    /\ FrontIdle

NextStream ==
    \/ \E a \in AdapterKinds, format \in WireFormats, flusher \in BOOLEAN :
          StreamStart(a, format, flusher)
    \/ \E e \in ProviderEvents : Scan(e)
    \/ \E readErr \in BOOLEAN : EndOfBody(readErr)

SpecStream == InitStream /\ [][NextStream]_vars

(***************************************************************************)
(* The middlewares of the authenticated routes.  One client and one        *)
(* counter store serve the limiter, the budget tracker and the key cache.  *)
(* SpecAuth chains the authentication middleware before a handler, and the *)
(* clock runs past the time to live of the cache.  SpecMW chains the rate  *)
(* limit middleware before a handler and puts the auth info in the         *)
(* request's context, while the clock passes midnight and spends are       *)
(* recorded.  SpecRoutes chains both as main.go does, at one clock reading.*)
(***************************************************************************)
\* The time to live of a cache entry passes at once.
Sleep ==
    /\ now <= MaxTime
    /\ front.pc \in {"idle", "done"}
    /\ now' = now + redisCacheTTL
    /\ call' = NewCall("Tick", "", NoBreaker, "")
    /\ UNCHANGED <<failureThreshold, recoveryProbeInterval, breakers, plVars,
                   auxVars>>

\* A time after every time the model reaches.
FarFuture == MaxTime + redisCacheTTL + 1

\* The api_keys row of "k1".
MintedRow(status, expires_at, rpm, cap) ==
    [exists |-> TRUE, status |-> status, expires_at |-> expires_at,
     meta |-> KeyMetadata("key-1", "t1", "u1", rpm, cap)]

\* The rpm limits and the daily caps a key is minted with.
RPMLimits == {<<>>} \cup {<<n>> : n \in 1..MaxLimit}
SpendCaps == {<<>>} \cup {<<n>> : n \in 0..MaxCap}

Rows(row) == [h \in KeyHashes |-> IF h = HashKey("k1") THEN row ELSE NoRow]

\* The principal minted for "k1".
Minted == AuthInfo(keystore.rows[HashKey("k1")].meta)

InitAuth ==
    /\ now = 0
    /\ RestIdle
    /\ scan = NoScan
    /\ ConcIdle
    /\ limiter = IdleLimiter
    /\ checks = [c \in Callers |-> IdleCheck]
    /\ answers = <<>>
    /\ stream = IdleStream
    /\ budget = NewBudgetTracker(FALSE)
    /\ front = IdleFront(AuthChain)
    /\ \E rdb \in BOOLEAN, status \in {"active", "revoked"},
          expires_at \in {Midnight, FarFuture},
          lim \in {<<<<>>, <<>>>>, <<<<1>>, <<MaxCap>>>>} :
          keystore = NewCachedKeyStore(
                        Rows(MintedRow(status, expires_at, lim[1], lim[2])), rdb)

NextAuth ==
    \/ Tick
    \/ Sleep
    \/ \E authHeader \in AuthHeaders : FrontArrive(authHeader, <<>>, NoRequestID)
    \/ \E getUp \in BOOLEAN, setUp \in BOOLEAN, dbUp \in BOOLEAN :
          AuthMiddleware(getUp, setUp, dbUp)
    \/ \E response \in HandlerResponses : ChatCompletions(response, 0)

SpecAuth == InitAuth /\ [][NextAuth]_vars

(***************************************************************************)
(* SpecRevoke: the authentication middleware before a handler while the    *)
(* key is revoked in api_keys (status key_status, revoked_at) or passes    *)
(* its expires_at, and the clock moves by half a minute or by just under   *)
(* the cache's time to live.                                               *)
(***************************************************************************)
\* UPDATE api_keys SET status = 'revoked' for "k1".
Revoke ==
    /\ front.pc \in {"idle", "done"}
    /\ keystore.rows[HashKey("k1")].status = "active"
    /\ keystore' = [keystore EXCEPT !.rows[HashKey("k1")].status = "revoked"]
    /\ UNCHANGED <<cbVars, plVars, rlVars, stream, budget, front, scan, ccVars>>

\* Time passes between two requests.
Linger ==
    /\ front.pc \in {"idle", "done"}
    /\ \E d \in {1, redisCacheTTL - 1} :
          /\ now + d <= MaxTime + redisCacheTTL
          /\ now' = now + d
    /\ call' = NewCall("Tick", "", NoBreaker, "")
    /\ UNCHANGED <<failureThreshold, recoveryProbeInterval, breakers, plVars,
                   auxVars>>

InitRevoke ==
    /\ now = 0
    /\ RestIdle
    /\ scan = NoScan
    /\ ConcIdle
    /\ limiter = IdleLimiter
    /\ checks = [c \in Callers |-> IdleCheck]
    /\ answers = <<>>
    /\ stream = IdleStream
    /\ budget = NewBudgetTracker(FALSE)
    /\ front = IdleFront(AuthChain)
    /\ \E rdb \in BOOLEAN, expires_at \in {Midnight, FarFuture} :
          keystore = NewCachedKeyStore(
                        Rows(MintedRow("active", expires_at, <<1>>, <<MaxCap>>)), rdb)

NextRevoke ==
    \/ Linger
    \/ Revoke
    \/ \E authHeader \in AuthHeaders : FrontArrive(authHeader, <<>>, NoRequestID)
    \/ \E getUp \in BOOLEAN, setUp \in BOOLEAN, dbUp \in BOOLEAN :
          AuthMiddleware(getUp, setUp, dbUp)
    \/ \E response \in HandlerResponses : ChatCompletions(response, 0)

SpecRevoke == InitRevoke /\ [][NextRevoke]_vars

\* The clock advances between two requests; each request's script draws a
\* number of its own.
BetweenRequests == front.pc \in {"idle", "done"} /\ Tick

InitMW ==
    /\ now = 0
    /\ RestIdle
    /\ scan = NoScan
    /\ ConcIdle
    /\ checks = [c \in Callers |-> IdleCheck]
    /\ answers = <<>>
    /\ stream = IdleStream
    /\ front = IdleFront(RateLimitChain)
    /\ \E rdb \in BOOLEAN, rpm \in RPMLimits, cap \in SpendCaps :
          /\ limiter = [IdleLimiter EXCEPT !.rdb = rdb, !.window = Minute]
          /\ budget = NewBudgetTracker(rdb)
          /\ keystore = NewCachedKeyStore(
                 Rows(MintedRow("active", FarFuture, rpm, cap)), FALSE)

NextMW ==
    \/ BetweenRequests
    \/ \E info \in {<<>>, <<Minted>>} : FrontArrive(<<>>, info, NoRequestID)
    \/ \E rnd \in {front.n}, up \in BOOLEAN, budgetUp \in BOOLEAN :
          RateLimitMiddleware(rnd, up, budgetUp)
    \/ \E response \in {OKResponse, WriteServiceUnavailableError}, cost \in 0..MaxCost :
          ChatCompletions(response, cost)
    \/ \E teamID \in Teams, costCents \in (0 - 1)..MaxCost, up \in BOOLEAN :
          CallRecordSpend(teamID, costCents, up)

SpecMW == InitMW /\ [][NextMW]_vars

(***************************************************************************)
(* SpecWindow: the rate limit middleware before the handler, which answers *)
(* with any of its responses, while the clock advances between requests.   *)
(***************************************************************************)
NextWindow ==
    \/ BetweenRequests
    \/ FrontArrive(<<>>, <<Minted>>, NoRequestID)
    \/ \E rnd \in {front.n}, up \in BOOLEAN, budgetUp \in BOOLEAN :
          RateLimitMiddleware(rnd, up, budgetUp)
    \/ \E response \in HandlerResponses : ChatCompletions(response, 0)

SpecWindow == InitMW /\ [][NextWindow]_vars

\* The X-Request-ID header of a request: absent, or a client's id.
IncomingIDs == {NoRequestID, <<"client-1">>}

InitRoutes ==
    /\ now = 0
    /\ RestIdle
    /\ scan = NoScan
    /\ ConcIdle
    /\ checks = [c \in Callers |-> IdleCheck]
    /\ answers = <<>>
    /\ stream = IdleStream
    /\ front = IdleFront(RoutesChain)
    /\ \E rdb \in BOOLEAN, rpm \in RPMLimits, cap \in SpendCaps :
          /\ limiter = [IdleLimiter EXCEPT !.rdb = rdb, !.window = Minute]
          /\ budget = NewBudgetTracker(rdb)
          /\ keystore = NewCachedKeyStore(
                 Rows(MintedRow("active", FarFuture, rpm, cap)), rdb)

NextRoutes ==
    \/ \E authHeader \in AuthHeaders, incoming \in IncomingIDs :
          FrontArrive(authHeader, <<>>, incoming)
    \/ \E getUp \in BOOLEAN, setUp \in BOOLEAN, dbUp \in BOOLEAN :
          AuthMiddleware(getUp, setUp, dbUp)
    \/ \E rnd \in RandomDraws, up \in BOOLEAN, budgetUp \in BOOLEAN :
          RateLimitMiddleware(rnd, up, budgetUp)
    \/ \E response \in HandlerResponses, cost \in 0..MaxCost :
          ChatCompletions(response, cost)
    \/ \E teamID \in Teams, costCents \in (0 - 1)..MaxCost, up \in BOOLEAN :
          CallRecordSpend(teamID, costCents, up)

SpecRoutes == InitRoutes /\ [][NextRoutes]_vars

(***************************************************************************)
(* SpecScan: the policy evaluator and the PII client are constructed with  *)
(* either fail_open setting, may be loaded and connected, and scan         *)
(* requests whose evaluation and service answers range over every outcome. *)
(***************************************************************************)
\* The tiers of the requests scanned: the four tiers and an unknown word.
ScanClasses == KnownClasses \cup {"SECRET"}

InitScan ==
    /\ now = 0
    /\ RestIdle
    /\ limiter = IdleLimiter
    /\ checks = [c \in Callers |-> IdleCheck]
    /\ answers = <<>>
    /\ stream = IdleStream
    /\ keystore = NewCachedKeyStore([h \in KeyHashes |-> NoRow], FALSE)
    /\ budget = NewBudgetTracker(FALSE)
    /\ front = IdleFront(RoutesChain)
    /\ \E failOpen \in BOOLEAN : scan = [NoScan EXCEPT !.failOpen = failOpen]
    /\ ConcIdle

NextScan ==
    \/ \E found \in BOOLEAN, compiles \in BOOLEAN : Load(found, compiles)
    \/ \E ok \in BOOLEAN : Connect(ok)
    \/ \E o \in EvalOutcomes : ScanPolicy(o)
    \/ \E classification \in ScanClasses, resps \in ScanPIISequences :
          ScanPII(classification, resps)
    \/ ScanReturn

SpecScan == InitScan /\ [][NextScan]_vars

(***************************************************************************)
(* SpecHT: two callers use one health tracker for one provider name, in    *)
(* every interleaving of the steps of GetBreaker, while the clock moves.   *)
(***************************************************************************)
InitHT ==
    /\ now = 0
    /\ failureThreshold \in 1..MaxThreshold
    /\ recoveryProbeInterval \in 1..MaxInterval
    /\ breakers = NewHealthTracker
    /\ call = NoCall
    /\ modelsCfg = NoModels
    /\ registry = NewRegistry
    /\ filterCfg = [f \in FilterSet |-> FALSE]
    /\ req = IdleRequest
    /\ served = 0
    /\ limiter = IdleLimiter
    /\ checks = [c \in Callers |-> IdleCheck]
    /\ answers = <<>>
    /\ stream = IdleStream
    /\ keystore = NewCachedKeyStore([h \in KeyHashes |-> NoRow], FALSE)
    /\ budget = NewBudgetTracker(FALSE)
    /\ front = IdleFront(RoutesChain)
    /\ scan = NoScan
    /\ ht = SharedTracker(failureThreshold, recoveryProbeInterval)
    /\ shared = SharedRegistry

NextHT ==
    \/ Tick
    \/ \E t \in Threads, op \in TrackerOps : HTCall(t, op)
    \/ \E t \in Threads : HTRead(t)
    \/ \E t \in Threads : HTLock(t)
    \/ \E t \in Threads : HTCreate(t)
    \/ \E t \in Threads : HTApply(t)

SpecHT == InitHT /\ [][NextHT]_vars

(***************************************************************************)
(* SpecReload: two requests call Registry.Get while the reload callback    *)
(* replaces the registry, in every interleaving.                           *)
(***************************************************************************)
InitReload ==
    /\ now = 0
    /\ RestIdle
    /\ AuxIdle

NextReload ==
    \/ \E g \in Getters : RegRLock(g)
    \/ \E g \in Getters : RegRead(g)
    \/ \E g \in Getters : RegRUnlock(g)
    \/ ReloadBuild
    \/ \E field \in {"mu", "adapters"} : ReloadAssign(field)

SpecReload == InitReload /\ [][NextReload]_vars

(***************************************************************************)
(* The breaker claims, checked under SpecCB.  In SpecCB every step sets    *)
(* `call`, so a state whose call names an operation is the state right     *)
(* after that operation, and call.was is the breaker it was made on.       *)
(***************************************************************************)
IsQuery == call.op \in {"Allow", "State"}

\* C9: a state query (State or Allow) on an Open breaker moves it to
\* Half-Open and answers allow=true when now - opened_at >= the probe
\* interval, and leaves it Open and answers allow=false before that.
C9_QueryProbesAfterInterval ==
    (IsQuery /\ call.was.state = StateOpen) =>
        IF now - call.was.openedAt >= recoveryProbeInterval
        THEN /\ breakers[call.p] = [call.was EXCEPT !.state = StateHalfOpen]
             /\ call.ret = (IF call.op = "Allow" THEN TRUE ELSE StateHalfOpen)
        ELSE /\ breakers[call.p] = call.was
             /\ call.ret = (IF call.op = "Allow" THEN FALSE ELSE StateOpen)

\* An Allow made exactly when the interval has elapsed was answered true.
C9_Witness ==
    /\ call.op = "Allow"
    /\ call.was.state = StateOpen
    /\ now - call.was.openedAt = recoveryProbeInterval
    /\ call.ret = TRUE
    /\ breakers[call.p].state = StateHalfOpen

\* C10: from Half-Open a recorded success closes the breaker and zeroes the
\* failure counter, and a recorded failure reopens it with opened_at stamped
\* anew, so that no probe is allowed before a full interval has passed again.
C10_HalfOpenOutcome ==
    /\ (call.op = "RecordSuccess" /\ call.was.state = StateHalfOpen) =>
            /\ breakers[call.p].state = StateClosed
            /\ breakers[call.p].failures = 0
    /\ (call.op = "RecordFailure" /\ call.was.state = StateHalfOpen) =>
            /\ breakers[call.p].state = StateOpen
            /\ breakers[call.p].openedAt = now
            /\ \A t \in now..MaxTime :
                   t - now < recoveryProbeInterval => ~Allow(breakers[call.p], t).ret

\* A probe failed some time after the breaker first opened.
C10_Witness ==
    /\ call.op = "RecordFailure"
    /\ call.was.state = StateHalfOpen
    /\ call.was.openedAt < now
    /\ breakers[call.p].state = StateOpen

(***************************************************************************)
(* The routing claims, checked under SpecRoute.  The listed order of the   *)
(* request's alias and the three tests of a candidate are written here     *)
(* from the configuration, not from the resolution's own operators.        *)
(***************************************************************************)
Routed == req.routeIndex > 0

\* The routes of the request's alias as listed: the primary, then the fallback.
Listed == <<modelsCfg[req.model].primary>> \o modelsCfg[req.model].fallback

ChosenRoute == Listed[req.routeIndex]

TierRank(c) ==
    CASE c = "PUBLIC" -> 0 [] c = "INTERNAL" -> 1 [] c = "CONFIDENTIAL" -> 2
      [] c = "RESTRICTED" -> 3 [] OTHER -> -1

\* C2 as stated: every route returned for a request with tier t has a
\* classification ceiling >= t in PUBLIC < INTERNAL < CONFIDENTIAL < RESTRICTED.
C2_CeilingCoversTier ==
    (Routed /\ TierRank(req.classification) >= 0) =>
        TierRank(ChosenRoute.ceiling) >= TierRank(req.classification)

\* C2 amended: every route returned for a request with one of the four tiers
\* t either has no ceiling configured (the empty ceiling admits every tier)
\* or has one of the four tiers as its ceiling, and that ceiling is >= t.
C2_ConfiguredCeilingCoversTier ==
    (Routed /\ TierRank(req.classification) >= 0 /\ ChosenRoute.ceiling # "") =>
        /\ TierRank(ChosenRoute.ceiling) >= 0
        /\ TierRank(ChosenRoute.ceiling) >= TierRank(req.classification)

\* A RESTRICTED request passed over an INTERNAL primary for a RESTRICTED
\* fallback.
C2_Witness ==
    /\ Routed
    /\ req.classification = ClassRestricted
    /\ req.routeIndex = 2
    /\ Listed[1].ceiling = ClassInternal
    /\ ChosenRoute.ceiling = ClassRestricted
    /\ req.provider = ChosenRoute.provider

\* The three tests of a candidate, on the breakers as they are before the
\* resolution: the ceiling admits the tier, the provider has an adapter,
\* the provider's breaker is not an Open one still inside its interval.
CeilingAdmits(route, t) ==
    \/ route.ceiling = ""
    \/ /\ TierRank(route.ceiling) >= 0
       /\ TierRank(t) >= 0 => TierRank(route.ceiling) >= TierRank(t)

Registered(route) == registry[route.provider] # NoAdapter

BreakerAllows(route) ==
    LET b == breakers[route.provider] IN
    \/ b = NoBreaker
    \/ b.state # StateOpen
    \/ now - b.openedAt >= recoveryProbeInterval

Servable(route) ==
    CeilingAdmits(route, req.classification) /\ Registered(route) /\ BreakerAllows(route)

ServableIndexes ==
    IF req.model \in DOMAIN modelsCfg
    THEN {i \in 1..Len(Listed) : Servable(Listed[i])}
    ELSE {}

C1_BlockShortCircuits ==
    \A i \in 1..Len(req.results) :
        req.results[i].Action = ActionBlock =>
            /\ i = Len(req.results)
            /\ req.sentTo = <<>>
            /\ req.pc = "done"
            /\ req.response.status = 451
            /\ req.response.code = "content_blocked"

\* The first filter blocked while a later filter was enabled.
C1_Witness ==
    /\ req.results # <<>>
    /\ req.results[Len(req.results)] = NewResult(ActionBlock, "secrets")
    /\ filterCfg["injection"] /\ filterCfg["policy"]
    /\ req.response.status = 451

(***************************************************************************)
(* The claims about requests and open breakers, checked under Spec.        *)
(***************************************************************************)
\* The failures counted by provider p's breaker, none if it is not created.
FailuresOf(bs, p) == IF bs[p] = NoBreaker THEN 0 ELSE bs[p].failures

\* Provider p's breaker is Open and its probe interval has not elapsed.
OpenWithin(p) ==
    /\ breakers[p].state = StateOpen
    /\ now - breakers[p].openedAt < recoveryProbeInterval

\* C4: the failure that brings a Closed breaker's count to failure_threshold
\* opens it; from then until recovery_probe_interval has elapsed since it
\* opened the breaker stays Open, every availability query for P answers
\* false, route resolution does not return P, and no SendRequest goes to P.
C4_OpenBreakerRejectsLocally ==
    [][\A p \in Providers :
        /\ (/\ breakers[p].state \in {StateClosed, "none"}
            /\ FailuresOf(breakers', p) = FailuresOf(breakers, p) + 1
            /\ FailuresOf(breakers', p) >= failureThreshold)
           => /\ breakers'[p].state = StateOpen
              /\ breakers'[p].openedAt = now
        /\ breakers[p].state = StateClosed =>
              breakers[p].failures < failureThreshold
        /\ OpenWithin(p) =>
              /\ breakers'[p].state = StateOpen
              /\ breakers'[p].openedAt = breakers[p].openedAt
              /\ (req.pc = "route" /\ req'.pc # "route") =>
                    /\ \A k \in 1..Len(req'.asked) :
                           req'.asked[k].p = p => req'.asked[k].ret = FALSE
                    /\ req'.routeIndex > 0 => req'.provider # p
              /\ Len(req'.sentTo) > Len(req.sentTo) =>
                    req'.sentTo[Len(req'.sentTo)] # p]_vars

\* A request for openai's alias was answered false by the open breaker and
\* went to the fallback route without a call to openai.
C4_Witness ==
    /\ OpenWithin("openai")
    /\ req.model = "test-model"
    /\ req.asked # <<>>
    /\ req.asked[1] = [p |-> "openai", ret |-> FALSE]
    /\ req.routeIndex = 2
    /\ req.sentTo = <<"internal_vllm">>

\* C6: when no candidate of the requested model is eligible, registered and
\* healthy (every breaker open, every ceiling too low, or the alias unknown),
\* the request ends with 503 service_unavailable and no SendRequest to any
\* provider is made for it.
C6_NoRouteIs503 ==
    [][/\ (req.pc = "route" /\ req'.pc # "route" /\ ServableIndexes = {}) =>
            /\ req'.pc = "done"
            /\ req'.routeIndex = 0
            /\ req'.response = [status |-> 503, type |-> "server_error",
                                code |-> "service_unavailable"]
            /\ req'.sentTo = <<>>
       /\ (req.pc = "done" /\ req.routeIndex = 0) =>
            (req'.sentTo # req.sentTo => req'.sentTo = <<>>)]_vars

\* Both routes of an alias were refused by open breakers.
C6_Witness ==
    /\ req.pc = "done"
    /\ req.model = "gpt-4o"
    /\ req.asked = <<[p |-> "openai", ret |-> FALSE],
                     [p |-> "anthropic", ret |-> FALSE]>>
    /\ req.response.status = 503
    /\ req.sentTo = <<>>

(***************************************************************************)
(* The rate-limit claim, checked under SpecRL.                             *)
(***************************************************************************)
\* The calls answered Allowed at a time in the window (t - W, t].
AdmittedIn(t) ==
    {i \in 1..Len(answers) :
        /\ answers[i].result.Allowed
        /\ t - limiter.window < answers[i].at
        /\ answers[i].at <= t}

\* C3: while the store is reachable, under every interleaving of concurrent
\* Limiter.Check calls, the calls answered Allowed inside any window of
\* length W never number more than the limit L.
C3_AtMostLimitPerWindow ==
    (limiter.rdb /\ ~limiter.failed) =>
        \A t \in 0..MaxTime : Cardinality(AdmittedIn(t)) <= limiter.limit

(***************************************************************************)
(* The streaming claims, checked under SpecStream.                         *)
(***************************************************************************)
DataFrames(out) == SelectSeq(out, LAMBDA w : w.kind = "data")

\* The canonical delta frame with the given content.
DeltaFrame(content) ==
    [kind |-> "data",
     payload |-> [choices |-> <<[index |-> 0, delta |-> [content |-> content],
                                 finish_reason |-> "null"]>>]]

DoneFrame == [kind |-> "data", payload |-> Raw("[DONE]")]

\* message_start, content_block_delta("Hello"), content_block_delta(" world"),
\* message_stop
HelloWorldEvents ==
    <<MessageStart, TextDelta("Hello"), TextDelta(" world"), MessageStop>>

HelloWorldFrames == <<DeltaFrame("Hello"), DeltaFrame(" world"), DoneFrame>>

\* The payloads that have a translation: text deltas, message_delta,
\* message_stop and the literal [DONE].
HasFrame(p) ==
    \/ p = Raw("[DONE]")
    \/ /\ p.json
       /\ \/ p.type = "content_block_delta" /\ p.deltaType = "text_delta"
          \/ p.type \in {"message_delta", "message_stop"}

C8_NoSilentEnd ==
    (/\ stream.pc = "closed"
     /\ stream.status = 200
     /\ \A i \in 1..Len(stream.out) : stream.out[i] # DoneFrame)
    => \E i \in 1..Len(stream.log) : stream.log[i] # LogStarted

(***************************************************************************)
(* The failure counter and the probes of a breaker, checked under SpecCB.  *)
(***************************************************************************)
\* The failure counter of the breaker a call was made on, 0 if the call
\* created it.
WasFailures == IF call.was = NoBreaker THEN 0 ELSE call.was.failures

\* The call named by `call` lowered the failure counter.
CounterLowered ==
    /\ call.op \in {"Allow", "State", "RecordSuccess", "RecordFailure", "Reset"}
    /\ breakers[call.p].failures < WasFailures

\* C11 as stated: a success recorded in Closed leaves the failure counter as
\* it is, the breaker opens as soon as the failures counted reach
\* failure_threshold, and the counter is reset only by a Half-Open success.
C11_CounterResetOnlyByProbeSuccess ==
    /\ (call.op = "RecordSuccess" /\ call.was.state = StateClosed) =>
            breakers[call.p] = call.was
    /\ (call.op = "RecordFailure" /\ call.was.state \in {StateClosed, "none"}) =>
            /\ breakers[call.p].failures = WasFailures + 1
            /\ breakers[call.p].state =
                  IF WasFailures + 1 >= failureThreshold THEN StateOpen
                  ELSE StateClosed
    /\ CounterLowered =>
            (call.op = "RecordSuccess" /\ call.was.state = StateHalfOpen)

\* C11 amended: a success recorded in Closed leaves the failure counter as it
\* is, the breaker opens as soon as the failures counted since the counter
\* was last zeroed reach failure_threshold, and the counter is zeroed only by
\* a Half-Open success or by an explicit Reset() of the breaker.
C11_CounterResetByProbeSuccessOrReset ==
    /\ (call.op = "RecordSuccess" /\ call.was.state = StateClosed) =>
            breakers[call.p] = call.was
    /\ (call.op = "RecordFailure" /\ call.was.state \in {StateClosed, "none"}) =>
            /\ breakers[call.p].failures = WasFailures + 1
            /\ breakers[call.p].state =
                  IF WasFailures + 1 >= failureThreshold THEN StateOpen
                  ELSE StateClosed
    /\ CounterLowered =>
            /\ breakers[call.p].failures = 0
            /\ \/ call.op = "RecordSuccess" /\ call.was.state = StateHalfOpen
               \/ call.op = "Reset"

\* A success recorded on a closed breaker that had counted a failure.
C11_Witness ==
    /\ call.op = "RecordSuccess"
    /\ call.was.state = StateClosed
    /\ call.was.failures > 0
    /\ breakers[call.p].failures = call.was.failures

\* C12: after an Allow has answered true with the breaker Half-Open, the next
\* Allow made before a success or a failure is recorded answers false.
C12_OneProbeInHalfOpen ==
    [][(/\ call.op = "Allow"
        /\ call.ret = TRUE
        /\ breakers[call.p].state = StateHalfOpen
        /\ call'.op = "Allow"
        /\ call'.p = call.p)
       => call'.ret = FALSE]_vars

(***************************************************************************)
(* The recording of failed dispatches, checked under Spec.                 *)
(***************************************************************************)
\* The step ends a dispatched request in a transport error or timeout
\* (SendRequest returned an error) or in a provider response that is not 200.
DispatchFails ==
    \/ req.pc = "send" /\ req'.pc = "done"
    \/ req.pc = "translate_fail" /\ req'.pc = "done"
    \/ req.pc = "stream" /\ req'.pc = "done" /\ req'.response # OKResponse

\* C13: every dispatched request that ends in a transport error, a timeout
\* or a non-2xx provider response adds one failure to the breaker of the
\* provider the request was routed to, on both paths.
C13_FailedDispatchRecorded ==
    [][DispatchFails =>
          FailuresOf(breakers', req.provider) = FailuresOf(breakers, req.provider) + 1]_vars

(***************************************************************************)
(* The claims about the middlewares of the authenticated routes.           *)
(***************************************************************************)
\* The rate limit middleware acts on the request in this step.
RateLimitStep == front.pc = "ratelimit" /\ front'.pc # "ratelimit"

\* The request is of a principal with a daily spend cap.
Capped == front.info # <<>> /\ front.info[1].DailySpendLimitCents # <<>>

\* What the store holds as the spend of the principal's team on the
\* present UTC day.
SpentToday == budget.spent[dailyBudgetKey(front.info[1].TeamID, now)]

\* C14: when the middleware serves a request of a principal with a daily cap
\* that the RPM check admitted, and the counter store answers, the request
\* goes on to the handler if and only if the team's spend of the present UTC
\* day is strictly below the cap; otherwise it is answered 402
\* budget_exceeded, and a request answered so never reaches the handler.
C14_BudgetPassesIffBelowCap ==
    [][/\ (RateLimitStep /\ Capped /\ front'.checked[1].result.Allowed
            /\ front'.budgeted[1].up)
          => IF SpentToday < front.info[1].DailySpendLimitCents[1]
             THEN front'.pc = "handler" /\ front'.response = NoResponse
             ELSE /\ front'.pc = "done"
                  /\ front'.response = WriteBudgetExceededError
                  /\ ~front'.handled
       /\ (front.response = WriteBudgetExceededError /\ front'.n = front.n)
          => ~front'.handled]_vars

\* A second or later request is denied on a tally that has reached a cap
\* above zero, with the store answering.
C14_Witness ==
    /\ front.n >= 2
    /\ front.response = WriteBudgetExceededError
    /\ front.budgeted # <<>>
    /\ front.budgeted[1].up
    /\ front.budgeted[1].result.LimitCents > 0
    /\ front.budgeted[1].result.SpentCents >= front.budgeted[1].result.LimitCents

\* The handler returns a completion to the request in this step.
CompletionStep ==
    front.pc = "handler" /\ front'.pc = "done" /\ front'.response = OKResponse

\* C15: with a counter store, every successful completion of a principal's
\* request adds its cost, when positive, to the spend counter of the
\* principal's team for the present UTC day, and adds nothing otherwise, so
\* that the counter is the sum of the positive costs of the completions.
C15_CompletionAddsItsCost ==
    [][(CompletionStep /\ front.info # <<>> /\ budget.rdb)
          => budget'.spent =
               [budget.spent EXCEPT
                  ![dailyBudgetKey(front.info[1].TeamID, now)] =
                      @ + (IF front'.cost > 0 THEN front'.cost ELSE 0)]]_vars

\* The rpm limit the middleware applies to the request.
RPMOf(f) ==
    IF f.info[1].RPMLimit # <<>> THEN f.info[1].RPMLimit[1] ELSE defaultRPM

\* C16: when the store answers and the window of the key already holds as
\* many entries as the limit, the middleware answers 429
\* rate_limit_exceeded with Retry-After set to half the window in seconds
\* and X-RateLimit-Remaining-Requests set to 0, and the handler is not
\* invoked for the request.
C16_FullWindowIs429 ==
    [][/\ (RateLimitStep /\ front.info # <<>> /\ front'.checked[1].up
            /\ Held(limiter, Minute, now) >= RPMOf(front))
          => /\ front'.pc = "done"
             /\ front'.response = WriteRateLimitError
             /\ front'.retryAfter = <<Seconds(Minute) \div 2>>
             /\ front'.rateHeaders # <<>>
             /\ front'.rateHeaders[1].Remaining = 0
             /\ ~front'.handled
       /\ (front.response = WriteRateLimitError /\ front'.n = front.n)
          => ~front'.handled]_vars

\* A request met a window holding as many entries as a limit of two.
C16_Witness ==
    /\ front.response = WriteRateLimitError
    /\ front.checked # <<>>
    /\ front.checked[1].up
    /\ front.checked[1].held = 2
    /\ front.rateHeaders[1].Limit = 2
    /\ front.retryAfter = <<30>>

\* The response carries the three rate limit headers, and the limit is the
\* key's rpm limit, or 60 when the key has none.
CarriesRateHeaders(f) ==
    /\ f.rateHeaders # <<>>
    /\ f.rateHeaders[1].Limit =
          (IF Minted.RPMLimit # <<>> THEN Minted.RPMLimit[1] ELSE 60)

C18_ChecksFailOpen ==
    [][(RateLimitStep /\ front.info # <<>>)
          => /\ ~front'.checked[1].up
                  => /\ front'.checked[1].result.Allowed
                     /\ front'.response # WriteRateLimitError
             /\ (front'.budgeted # <<>> /\ ~front'.budgeted[1].up)
                  => /\ front'.budgeted[1].result.Allowed
                     /\ front'.pc = "handler"
             /\ (~front'.checked[1].up /\ ~Capped) => front'.pc = "handler"]_vars

\* A second or later request of a capped principal passed both checks with
\* the store answering neither.
C18_Witness ==
    /\ front.n >= 2
    /\ front.pc = "handler"
    /\ front.checked # <<>>
    /\ ~front.checked[1].up
    /\ front.budgeted # <<>>
    /\ ~front.budgeted[1].up
    /\ budget.rdb

\* The authentication middleware acts on the request in this step.
AuthStep == front.pc = "auth" /\ front'.pc # "auth"

\* The Authorization header is missing, names another scheme than Bearer,
\* or carries no token.
NoBearerToken(h) == h = <<>> \/ h[1] # "Bearer " \/ Len(h) < 2

\* C19: a request with a missing Authorization header, a scheme that is not
\* Bearer, an empty token, or a token whose lookup returns no principal is
\* answered 401 invalid_api_key and never reaches the handler behind the
\* middleware; a lookup whose query of the authoritative store fails is
\* answered as a failure (500), not as an unknown key.
C19_UnauthenticatedIs401 ==
    [][/\ AuthStep =>
            /\ NoBearerToken(front.authHeader)
                  => front'.response = WriteAuthError /\ front'.pc = "done"
            /\ (~NoBearerToken(front.authHeader) /\ ~keystore'.last.hit
                 /\ keystore'.last.dbUp
                 /\ lookupDB(keystore.rows, HashKey(front.authHeader[2]), now,
                             TRUE).meta = <<>>)
                  => front'.response = WriteAuthError /\ front'.pc = "done"
            /\ (~NoBearerToken(front.authHeader) /\ ~keystore'.last.hit
                 /\ ~keystore'.last.dbUp)
                  => front'.response = WriteInternalError /\ front'.pc = "done"
       /\ (front.response = WriteAuthError /\ front'.n = front.n)
            => ~front'.handled]_vars

\* A Bearer token of a key that is in no store was answered 401 after the
\* authoritative store was asked.
C19_Witness ==
    /\ front.pc = "done"
    /\ front.authHeader = <<"Bearer ", "k0">>
    /\ keystore.last.queried
    /\ front.response = WriteAuthError
    /\ ~front.handled

\* The row of api_keys that the query selects at the present time, if any.
ActiveRow(h) ==
    /\ keystore.rows[h].exists
    /\ keystore.rows[h].status = "active"
    /\ keystore.rows[h].expires_at > now

\* C20: a lookup that finds the key in the cache returns the cached
\* principal and does not query the authoritative store; one that misses
\* queries it and, when an active and unexpired row is found, returns the
\* row's principal and writes it to the cache with a time to live of five
\* minutes; a key in neither tier yields null and the cache is left as it
\* was.  What the cache holds reads back as the principal that was stored.
C20_TwoTierLookup ==
    [][(AuthStep /\ ~NoBearerToken(front.authHeader)) =>
         LET h == HashKey(front.authHeader[2])
             last == keystore'.last
         IN /\ last.cached
                 => /\ last.hit /\ ~last.queried /\ ~last.err
                    /\ last.meta = <<UnmarshalJSON(keystore.cache[h].data)>>
                    /\ last.meta = <<keystore.rows[h].meta>>
                    /\ keystore'.cache = keystore.cache
            /\ ~last.cached => last.queried /\ ~last.hit
            /\ (~last.cached /\ last.dbUp /\ ActiveRow(h))
                 => /\ last.meta = <<keystore.rows[h].meta>>
                    /\ ~last.err
                    /\ (keystore.redis /\ last.setUp)
                         => keystore'.cache =
                              [keystore.cache EXCEPT ![h] =
                                 [set |-> TRUE,
                                  data |-> MarshalJSON(keystore.rows[h].meta),
                                  expireAt |-> now + 5 * Minute]]
            /\ (~last.cached /\ last.dbUp /\ ~ActiveRow(h))
                 => /\ last.meta = <<>>
                    /\ ~last.err
                    /\ keystore'.cache = keystore.cache]_vars

\* A lookup found in the cache the principal of a key whose row has expired
\* since it was cached.
C20_Witness ==
    /\ keystore.last.hit
    /\ keystore.last.meta # <<>>
    /\ keystore.last.keyHash = HashKey("k1")
    /\ ~ActiveRow(HashKey("k1"))
    /\ front.pc = "handler"

(***************************************************************************)
(* The claims about the filters, checked under SpecScan.                   *)
(***************************************************************************)
\* A step in which the policy filter scans a request.
PolicyStep == scan.filter = "" /\ scan'.filter = "policy"

\* C21: a request passes the policy filter only if a rule set is loaded and
\* its evaluation completes with allow = true; with no rule set loaded, an
\* evaluation error or timeout, a missing result or allow = false the
\* filter answers Block.
C21_PolicyFailsClosed ==
    [][PolicyStep =>
        /\ scan'.result.FilterName = "policy"
        /\ scan'.result.Action \in {ActionPass, ActionBlock}
        /\ scan'.result.Action = ActionPass
              <=> (scan.prepared /\ scan'.outcome = EvalOutcome("value", "true"))
        /\ (~scan.prepared
             \/ scan'.outcome.kind \in {"error", "timeout", "no_results",
                                         "no_expressions"}
             \/ scan'.outcome = EvalOutcome("value", "false"))
              => scan'.result.Action = ActionBlock]_vars

\* The filter blocked although the evaluation would have allowed, because
\* no rule set is loaded.
C21_Witness ==
    /\ scan.filter = "policy"
    /\ ~scan.prepared
    /\ scan.outcome = EvalOutcome("value", "true")
    /\ scan.result.Action = ActionBlock

\* A step in which the PII filter scans a request.
PIIStep == scan.filter = "" /\ scan'.filter = "pii"

\* The service reports detections in its answer r.
Reported(r) == ~r.err /\ r.Detected /\ r.Detections > 0

\* The scan reaches message i: no earlier message failed or had detections.
Reaches(resps, i) ==
    \A j \in 1..(i - 1) : ~resps[j].err /\ ~Reported(resps[j])

\* The RPC made for some message fails.
RPCFails(resps) ==
    \E i \in 1..Len(resps) : Reaches(resps, i) /\ resps[i].err

\* The service, asked, reports detections for some message.
ReportsDetections(resps) ==
    \E i \in 1..Len(resps) : Reaches(resps, i) /\ Reported(resps[i])

\* C22: when the PII client has no live connection, or the RPC for some
\* message fails, the filter answers Pass if fail_open is set and Block
\* otherwise.
C22_PIIFailRule ==
    [][(PIIStep /\ (~scan.grpcClient \/ RPCFails(scan'.resps))) =>
        /\ scan'.result.FilterName = "pii"
        /\ scan'.result.Action =
              IF scan.failOpen THEN ActionPass ELSE ActionBlock]_vars

\* A connected client with fail_open set passed a request whose second
\* message the service could not be asked about.
C22_Witness ==
    /\ scan.filter = "pii"
    /\ scan.grpcClient
    /\ scan.failOpen
    /\ Len(scan.resps) = 2
    /\ ~scan.resps[1].err
    /\ scan.resps[2].err
    /\ scan.result.Action = ActionPass

\* C23: when the service reports detections for some message the filter
\* answers Block for a RESTRICTED or CONFIDENTIAL request and Flag for an
\* INTERNAL or PUBLIC one; when it answers every message without
\* detections the filter answers Pass.
C23_DetectionsByTier ==
    [][(PIIStep /\ scan.grpcClient) =>
        /\ (ReportsDetections(scan'.resps)
             /\ scan'.classification \in {ClassRestricted, ClassConfidential})
              => scan'.result.Action = ActionBlock
        /\ (ReportsDetections(scan'.resps)
             /\ scan'.classification \in {ClassInternal, ClassPublic})
              => scan'.result.Action = ActionFlag
        /\ (~ReportsDetections(scan'.resps) /\ ~RPCFails(scan'.resps))
              => scan'.result.Action = ActionPass]_vars

\* A RESTRICTED request was blocked for detections in its second message.
C23_Witness ==
    /\ scan.filter = "pii"
    /\ scan.grpcClient
    /\ scan.classification = ClassRestricted
    /\ Len(scan.resps) = 2
    /\ ~Reported(scan.resps[1]) /\ ~scan.resps[1].err
    /\ Reported(scan.resps[2])
    /\ scan.result.Action = ActionBlock

(***************************************************************************)
(* The claims about the chain's result list, checked under SpecChain.      *)
(***************************************************************************)
\* A step in which Chain.Run returns to the handler.
RunReturns == req.pc = "filter" /\ req'.pc # "filter"

\* Run returns a blocking result in this step.
RunBlocked == RunReturns /\ req'.pc = "done"

\* The list of results Run returns in this step.
Returned == IF req'.pc = "done" THEN req'.results ELSE req.results

\* The enabled filters, in the order the chain was built with.
EnabledFilters == SelectSeq(Chain, LAMBDA f : filterCfg[f])

\* C24: the chain runs the filters in the configured order and never a
\* disabled one, and a Flag or Pass never keeps the following filters from
\* running: the list Run returns holds, in order, exactly the results of
\* the enabled filters up to and including the first Block.
C24_ResultsAreEnabledPrefix ==
    [][RunReturns =>
        /\ Len(Returned) <= Len(EnabledFilters)
        /\ \A i \in 1..Len(Returned) :
              /\ Returned[i].FilterName = EnabledFilters[i]
              /\ Returned[i].Action \in Actions
              /\ Returned[i].Action = ActionBlock
                    <=> (RunBlocked /\ i = Len(Returned))
        /\ ~RunBlocked => Len(Returned) = Len(EnabledFilters)
        /\ RunBlocked => Returned # <<>>]_vars

\* With the injection scanner disabled, a Flag of the secrets filter was
\* followed by a Pass of the PII client and a Block of the policy filter.
C24_Witness ==
    /\ ~filterCfg["injection"]
    /\ req.pc = "done"
    /\ req.results = <<NewResult(ActionFlag, "secrets"),
                       NewResult(ActionPass, "pii"),
                       NewResult(ActionBlock, "policy")>>

\* How many of the results are an `action` of filter f.
ResultCount(results, f, action) ==
    Cardinality({i \in 1..Len(results) :
        results[i].FilterName = f /\ results[i].Action = action})

\* How many times the handler recorded an `action` of filter f.
MetricCount(metrics, f, action) ==
    Cardinality({i \in 1..Len(metrics) :
        metrics[i].filter = f /\ metrics[i].action = action})

\* C25: the handler records exactly one filter-action metric for every
\* result that is not a Pass (Flag, Redact, Block), the Flag results that
\* come before a later Block included.
C25_OneMetricPerNonPassResult ==
    [][RunReturns =>
        \A f \in FilterSet, action \in Actions \ {ActionPass} :
            MetricCount(req'.metrics, f, action)
                = ResultCount(Returned, f, action)]_vars

(***************************************************************************)
(* The claims about unknown and absent ceilings, checked under SpecRoute.  *)
(***************************************************************************)
\* A step in which the handler resolves the request's route.
ResolveStep == req.pc = "route" /\ req'.pc # "route"

KnownTier(c) == TierRank(c) >= 0

\* The route has a ceiling configured that is none of the four tiers.
UnknownCeiling(route) == route.ceiling # "" /\ ~KnownTier(route.ceiling)

\* The resolution returns candidate i or one listed before it.
ReturnsBy(i) == req'.routeIndex \in 1..i

C27_NoCeilingAdmitsEveryTier ==
    [][ResolveStep =>
        \A i \in 1..Len(Listed) :
            (/\ Listed[i].ceiling = ""
             /\ Registered(Listed[i])
             /\ BreakerAllows(Listed[i])) => ReturnsBy(i)]_vars

\* A RESTRICTED request passed over an INTERNAL primary and was routed to a
\* fallback with no ceiling.
C27_Witness ==
    /\ Routed
    /\ req.classification = ClassRestricted
    /\ req.routeIndex = 2
    /\ Listed[1].ceiling = ClassInternal
    /\ Registered(Listed[1])
    /\ ChosenRoute.ceiling = ""

(***************************************************************************)
(* The claim about error responses, checked under SpecRoutes.              *)
(***************************************************************************)
\* The (status, type, code) triples of the unified error format.
ErrorTriples ==
    {<<400, "invalid_request_error", "invalid_request">>,
     <<401, "authentication_error", "invalid_api_key">>,
     <<402, "budget_error", "budget_exceeded">>,
     <<429, "rate_limit_error", "rate_limit_exceeded">>,
     <<451, "content_filter_error", "content_blocked">>,
     <<500, "server_error", "internal_error">>,
     <<503, "server_error", "service_unavailable">>}

\* The request was answered with an error.
ErrorAnswered == front.pc = "done" /\ front.response.status >= 400

\* C28: every error response has the body {error: {message, type, code,
\* aegis_request_id}}; its aegis_request_id and its X-Request-ID header are
\* the request's id, which is the incoming X-Request-ID when there is one
\* and a minted id otherwise; and its (status, type, code) is one of the
\* seven triples.
C28_UnifiedErrorEchoesRequestID ==
    ErrorAnswered =>
        /\ DOMAIN front.body = {"message", "type", "code", "aegis_request_id"}
        /\ front.body["type"] = <<front.response.type>>
        /\ front.body["code"] = <<front.response.code>>
        /\ front.body["aegis_request_id"] = front.xRequestID
        /\ front.xRequestID # NoRequestID
        /\ front.incoming # NoRequestID => front.xRequestID = front.incoming
        /\ front.incoming = NoRequestID => front.xRequestID[1] = "req_"
        /\ <<front.response.status, front.response.type, front.response.code>>
              \in ErrorTriples

\* A request that carried its own id was refused for its budget, with that
\* id in the body.
C28_Witness ==
    /\ ErrorAnswered
    /\ front.response.status = 402
    /\ front.incoming = <<"client-1">>
    /\ front.body["aegis_request_id"] = <<"client-1">>

(***************************************************************************)
(* The claim about the script's effect on the window, checked under SpecRL.*)
(***************************************************************************)
\* A step in which the script runs for caller c and Check returns.
ScriptRuns(c) ==
    /\ checks[c].pc = "sent"
    /\ checks'[c].pc = "idle"
    /\ answers'[Len(answers')].script # <<>>

\* The entries of the key before the script runs: none once the key expired.
EntriesBefore == IF now >= limiter.expireAt THEN {} ELSE limiter.zset

Closes(p) ==
    /\ breakers[p] # NoBreaker
    /\ breakers[p].state = StateHalfOpen
    /\ breakers'[p].state = StateClosed

\* The handler finishes translating the provider's response in this step.
TranslationSucceeds ==
    req.pc = "translate" /\ req'.pc = "done" /\ req'.response = OKResponse

\* The non-stream request ends in this step because the dispatch or the
\* translation of the response failed.
DispatchOrTranslationFails ==
    /\ req.pc \in {"send", "translate", "translate_fail"}
    /\ req'.pc = "done"
    /\ req'.response # OKResponse

\* C30: on the non-stream path a success is recorded on a breaker only
\* after the provider's response has been translated; when the dispatch or
\* the translation fails no success is recorded for the request.
C30_SuccessOnlyAfterTranslation ==
    [][~req.stream =>
        /\ \A p \in Providers : Closes(p) => TranslationSucceeds
        /\ DispatchOrTranslationFails =>
              \A p \in Providers :
                  breakers[p] # NoBreaker =>
                      /\ breakers'[p].failures >= breakers[p].failures
                      /\ breakers[p].state = StateHalfOpen
                            => breakers'[p].state # StateClosed
        /\ (TranslationSucceeds
             /\ breakers[AdapterName(req.adapter)] # NoBreaker
             /\ breakers[AdapterName(req.adapter)].state = StateHalfOpen)
              => Closes(AdapterName(req.adapter))]_vars

\* A probe request was translated and its success closed the breaker that
\* had opened earlier.
C30_Witness ==
    /\ req.pc = "done"
    /\ ~req.stream
    /\ req.response = OKResponse
    /\ breakers[AdapterName(req.adapter)] # NoBreaker
    /\ breakers[AdapterName(req.adapter)].state = StateClosed
    /\ breakers[AdapterName(req.adapter)].openedAt # ZeroTime

(***************************************************************************)
(* The claim about concurrent callers of the tracker, checked under SpecHT.*)
(***************************************************************************)
\* C31: under any interleaving of concurrent GetBreaker, IsAvailable,
\* RecordFailure and RecordSuccess calls for one provider name, at most one
\* breaker is ever created for the name and every caller acts on it, so
\* the breaker holds every outcome recorded so far; and a provider no
\* failure was recorded for is available.
C31_OneBreakerPerName ==
    /\ Len(ht.heap) <= 1
    /\ \A t \in Threads :
          /\ ht.th[t].pc = "apply" => ht.breakers["openai"] = <<ht.th[t].cb>>
          /\ (ht.th[t].op = "IsAvailable" /\ ht.th[t].pc = "idle" /\ ~ht.failed)
                => ht.th[t].ret = TRUE
    /\ ht.breakers["openai"] # <<>> =>
          ht.heap[ht.breakers["openai"][1]] = ht.ref
    /\ ht.breakers["openai"] = <<>> =>
          ht.ref = NewCircuitBreaker(failureThreshold, recoveryProbeInterval)

\* Both callers missed the breaker on the read path; the second to take
\* the write lock found the breaker of the first, and the two failures
\* they recorded are both on it.
C31_Witness ==
    /\ ht.rechecks = 1
    /\ Len(ht.heap) = 1
    /\ ht.heap[1].failures = 2
    /\ \A t \in Threads : ht.th[t].pc = "idle" /\ ht.th[t].op = "RecordFailure"

(***************************************************************************)
(* The claim about the registry under reload, checked under SpecReload.    *)
(***************************************************************************)
\* The callback has copied part of the new registry over the shared one.
Replacing ==
    shared.rl.pc = "assign" /\ shared.rl.left # {"mu", "adapters"}

\* A request is inside Registry.Get.
InGet(g) == shared.get[g].pc # "idle"

\* C32: on reload the registry is replaced under its writer lock, so that
\* no Registry.Get runs while the registry is being replaced, and a Get
\* observes the complete old registry or the complete new one.
C32_GetExcludedFromReplacement ==
    /\ Replacing => (shared.mu.w /\ \A g \in Getters : ~InGet(g))
    /\ \A g \in Getters :
          InGet(g) => shared.mu.r > 0
    /\ ~shared.fatal

(***************************************************************************)
(* The claim about the breaker an outcome is recorded on, checked under    *)
(* Spec.                                                                   *)
(***************************************************************************)
\* The dispatch of the request, or the handling of its response, ends in
\* this step.
DispatchEnds ==
    /\ req.pc \in {"send", "translate", "translate_fail", "stream"}
    /\ req'.pc = "done"

\* C33: the outcome of a dispatch for a route whose provider name is P is
\* recorded on the breaker for P, the breaker the router consulted when it
\* admitted the route, and changes the breaker of no other provider.
C33_OutcomeOnRoutedProvidersBreaker ==
    [][DispatchEnds =>
        /\ \E k \in 1..Len(req.asked) :
              req.asked[k].p = req.provider /\ req.asked[k].ret
        /\ \A p \in Providers \ {req.provider} : breakers'[p] = breakers[p]]_vars

(***************************************************************************)
(* The claims about the principal's limits, checked under SpecEnrich.      *)
(***************************************************************************)
\* The alias is in the list.
InList(alias, list) == \E i \in 1..Len(list) : list[i] = alias

\* C34: a chat-completion request for a model alias that is not in the
\* principal's non-empty allowed-models list is never dispatched to a
\* provider.
C34_DisallowedModelNotDispatched ==
    (req.principal.AllowedModels # <<>>
     /\ ~InList(req.model, req.principal.AllowedModels))
        => req.sentTo = <<>>

\* A step in which the handler has parsed and enriched a valid request.
EnrichStep == req.pc \in {"idle", "done"} /\ req'.pc = "filter"

\* The request of the same principal with the same content whose body
\* carries the identity members b.
SameRequestWithBody(r, b) ==
    [kind |-> "valid", model |-> r.canon.Model,
     classification |-> r.principal.MaxClassification,
     stream |-> r.canon.Stream, allowed |-> r.principal.AllowedModels,
     body |-> b]

\* C35: after enrichment the request id, organization, team, user, key id
\* and classification of the canonical request are the principal's,
\* whatever the body carries: requests of one principal that differ only
\* in those members of the body are filtered and routed as the same
\* request, in the principal's tier.
C35_IdentityFromPrincipal ==
    [][EnrichStep =>
        LET c == req'.canon
            pr == req'.principal
        IN /\ c.RequestID = HandlerRequestID
           /\ c.OrganizationID = pr.OrganizationID
           /\ c.TeamID = pr.TeamID
           /\ c.UserID = pr.UserID
           /\ c.APIKeyID = pr.KeyID
           /\ c.Classification = pr.MaxClassification
           /\ req'.classification = pr.MaxClassification
           /\ \A b \in BodyIdentities :
                 [Parsed(SameRequestWithBody(req', b)) EXCEPT !.body = req'.body]
                     = req']_vars

\* A RESTRICTED principal's request whose body claims another identity and
\* the PUBLIC tier was routed and dispatched as a RESTRICTED request.
C35_Witness ==
    /\ req.body = ForgedIdentity
    /\ req.principal.MaxClassification = ClassRestricted
    /\ req.classification = ClassRestricted
    /\ req.canon.OrganizationID = "org-1"
    /\ req.sentTo # <<>>

(***************************************************************************)
(* The breaker's state and its counter, checked under SpecCB.              *)
(***************************************************************************)
\* C36: in every reachable state of a breaker with failure_threshold >= 1,
\* under any sequence of Allow, State, RecordSuccess, RecordFailure and
\* Reset calls, the breaker is Closed if and only if its failure counter
\* is below failure_threshold.
C36_ClosedIffBelowThreshold ==
    \A p \in Providers :
        breakers[p] # NoBreaker =>
            (breakers[p].state = StateClosed
                <=> breakers[p].failures < breakers[p].failureThreshold)

\* A breaker that had opened was closed again by the success of its probe.
C36_Witness ==
    /\ call.op = "RecordSuccess"
    /\ call.was.state = StateHalfOpen
    /\ call.was.failures >= failureThreshold
    /\ breakers[call.p].state = StateClosed
    /\ breakers[call.p].failures = 0

\* An outcome is recorded on a breaker whose stored state is Open.
LateOutcome(p) ==
    /\ call'.op \in {"RecordSuccess", "RecordFailure"}
    /\ call'.p = p
    /\ breakers[p] # NoBreaker
    /\ breakers[p].state = StateOpen

\* C37: while the stored state of a breaker is Open, recording an outcome
\* (of a request admitted before it opened) leaves its state and its
\* opened_at unchanged: a late success does not close it and a late failure
\* does not postpone the next probe.
C37_LateOutcomeLeavesOpenBreaker ==
    [][\A p \in Providers :
          LateOutcome(p) =>
              /\ breakers'[p].state = StateOpen
              /\ breakers'[p].openedAt = breakers[p].openedAt]_vars

\* A failure was recorded on an open breaker after the clock had moved on.
C37_Witness ==
    /\ call.op = "RecordFailure"
    /\ call.was # NoBreaker
    /\ call.was.state = StateOpen
    /\ now > call.was.openedAt
    /\ breakers[call.p].state = StateOpen
    /\ breakers[call.p].openedAt = call.was.openedAt
    /\ breakers[call.p].failures = call.was.failures + 1

(***************************************************************************)
(* The life of a cached principal, checked under SpecRevoke.               *)
(***************************************************************************)
\* The lookup of the step returned the principal of a key whose row the
\* authoritative store no longer selects.
StalePrincipal(h) ==
    /\ AuthStep
    /\ ~NoBearerToken(front.authHeader)
    /\ h = HashKey(front.authHeader[2])
    /\ ~ActiveRow(h)
    /\ keystore'.last.meta # <<>>

\* C38: after a key is revoked or expires in the authoritative store, Lookup
\* returns its principal only from the cache and only before five minutes
\* (the cache's time to live) have passed since the authoritative store last
\* returned the key; a cache hit leaves the cached entry and its time to
\* live as they were.
C38_StaleWithinTTL ==
    [][\A h \in KeyHashes :
          /\ StalePrincipal(h) =>
                /\ keystore'.last.hit
                /\ keystore.hitAt[h] # ZeroTime
                /\ now < keystore.hitAt[h] + 5 * Minute
                /\ keystore'.hitAt[h] = keystore.hitAt[h]
          /\ (AuthStep /\ keystore'.last.hit) => keystore'.cache = keystore.cache]_vars

\* The key was revoked while the cache held it; a lookup five minutes or
\* more after the authoritative store had last returned it asked the store
\* and found nothing.
C38_Witness ==
    /\ keystore.rows[HashKey("k1")].status = "revoked"
    /\ keystore.hitAt[HashKey("k1")] # ZeroTime
    /\ now >= keystore.hitAt[HashKey("k1")] + 5 * Minute
    /\ keystore.cache[HashKey("k1")].set
    /\ keystore.last.keyHash = HashKey("k1")
    /\ keystore.last.queried
    /\ keystore.last.meta = <<>>
    /\ front.response = WriteAuthError

(***************************************************************************)
(* The entries of the sliding window, checked under SpecWindow.            *)
(***************************************************************************)
\* The entries the store counts in the window that ends at `at`.
InWindow(l, at) == {m \in Stored(l, at) : m[1] > at - Minute}

\* The script ran for the request of this step and admitted it.
AdmittedByRPM ==
    /\ RateLimitStep
    /\ front'.checked # <<>>
    /\ front'.checked[1].up
    /\ front'.checked[1].result.Allowed

\* C39: a request the requests-per-minute check admits has its entry in the
\* sliding window from then on, also when the budget check then rejects it
\* with 402; every entry stays in the window until it has aged out of it,
\* and no step other than the check changes the limiter's store, whatever
\* the handler answers (400, 451, 503, a provider failure).
C39_AdmittedEntryStays ==
    [][/\ AdmittedByRPM => <<now, front.n>> \in InWindow(limiter', now')
       /\ \A m \in InWindow(limiter, now) :
             m[1] > now' - Minute => m \in InWindow(limiter', now')
       /\ ~RateLimitStep => limiter' = limiter]_vars

\* A request admitted by the check was answered 451 by the handler, and its
\* entry is in the window.
C39_Witness ==
    /\ front.pc = "done"
    /\ front.handled
    /\ front.response = WriteContentBlockedError
    /\ front.checked # <<>>
    /\ front.checked[1].up
    /\ front.checked[1].result.Allowed
    /\ \E m \in InWindow(limiter, now) : m[2] = front.n

(***************************************************************************)
(* The order of the forwarded frames, checked under SpecStream.            *)
(***************************************************************************)
\* The payload has a frame: it is the literal [DONE], or its translation
\* succeeds and is not null.
Forwards(a, p) ==
    \/ p = DoneBytes
    \/ /\ ~TransformStreamChunk(a, p).err
       /\ TransformStreamChunk(a, p).data # Nil

\* The frames of the payloads `ds`, in their order, one for each payload
\* that has a frame.
Forwarded(a, ds) ==
    LET kept == SelectSeq(ds, LAMBDA p : Forwards(a, p))
    IN [i \in 1..Len(kept) |->
           DataLine(IF kept[i] = DoneBytes THEN DoneBytes
                    ELSE TransformStreamChunk(a, kept[i]).data)]

\* C40: the data frames written to the client are, in order, the
\* translations of the provider's data: payloads that have one (a payload
\* whose translation is null or fails is skipped, none is reordered or
\* duplicated); nothing is written after data: [DONE], so the stream
\* carries at most one [DONE], and forwarding has ended once it is written.
C40_FramesInOrderDoneLast ==
    /\ DataFrames(stream.out) = Forwarded(stream.adapter, stream.datas)
    /\ \A i \in 1..Len(stream.out) :
          stream.out[i] = DoneFrame => i = Len(stream.out) /\ stream.pc = "closed"

\* A stream of at least three payloads, one of them skipped, ended with the
\* only [DONE] after two translated frames.
C40_Witness ==
    /\ stream.pc = "closed"
    /\ Len(stream.datas) >= 3
    /\ Len(DataFrames(stream.out)) < Len(stream.datas)
    /\ Len(DataFrames(stream.out)) >= 3
    /\ stream.out[Len(stream.out)] = DoneFrame
    /\ DataFrames(stream.out)[1] # DataFrames(stream.out)[2]

====
